---------------------------- MODULE Spec2Model ----------------------------
(***************************************************************************)
(* A model of blanket.py (kezabelle/blanket, Python 2.7, WebOb >= 1.4):    *)
(* the path-template compiler, the route table, the exception route table, *)
(* the keepcalling trampoline and Blanket.get_response.                    *)
(*                                                                         *)
(* Strings are sequences of one-character strings, so that the textual     *)
(* substitution of URLTransformRegistry.make and the matching of the       *)
(* compiled pattern are computed, not assumed.                             *)
(***************************************************************************)
EXTENDS Integers, Sequences, FiniteSets, TLC

(***************************************************************************)
(* Characters                                                              *)
(***************************************************************************)
Digits == <<"0", "1", "2", "3", "4", "5", "6", "7", "8", "9">>

LowerLetters == <<"a", "b", "c", "d", "e", "f", "g", "h", "i", "j", "k", "l", "m",
                  "n", "o", "p", "q", "r", "s", "t", "u", "v", "w", "x", "y", "z">>

UpperLetters == <<"A", "B", "C", "D", "E", "F", "G", "H", "I", "J", "K", "L", "M",
                  "N", "O", "P", "Q", "R", "S", "T", "U", "V", "W", "X", "Y", "Z">>

Range(f) == {f[i] : i \in DOMAIN f}

IndexIn(s, c) == CHOOSE i \in DOMAIN s : s[i] = c

IsDigit(c) == c \in Range(Digits)

\* str.lower() of one character (re.IGNORECASE compares case-folded characters)
Lower(c) == IF c \in Range(UpperLetters) THEN LowerLetters[IndexIn(UpperLetters, c)] ELSE c

Upper(c) == IF c \in Range(LowerLetters) THEN UpperLetters[IndexIn(LowerLetters, c)] ELSE c

\* c lies in the character range lo-hi of a character class (digits and letters)
InCharRange(c, lo, hi) ==
    \/ /\ IsDigit(c) /\ IsDigit(lo) /\ IsDigit(hi)
       /\ IndexIn(Digits, lo) <= IndexIn(Digits, c)
       /\ IndexIn(Digits, c) <= IndexIn(Digits, hi)
    \/ /\ c \in Range(LowerLetters) /\ lo \in Range(LowerLetters) /\ hi \in Range(LowerLetters)
       /\ IndexIn(LowerLetters, lo) <= IndexIn(LowerLetters, c)
       /\ IndexIn(LowerLetters, c) <= IndexIn(LowerLetters, hi)
    \/ /\ c \in Range(UpperLetters) /\ lo \in Range(UpperLetters) /\ hi \in Range(UpperLetters)
       /\ IndexIn(UpperLetters, lo) <= IndexIn(UpperLetters, c)
       /\ IndexIn(UpperLetters, c) <= IndexIn(UpperLetters, hi)

(***************************************************************************)
(* String helpers (str.startswith, `in`, str.replace, str.count)           *)
(***************************************************************************)
StartsWithAt(s, i, sub) ==
    /\ i + Len(sub) - 1 <= Len(s)
    /\ \A k \in 1..Len(sub) : s[i + k - 1] = sub[k]

Contains(s, sub) == \E i \in 1..Len(s) : StartsWithAt(s, i, sub)

RECURSIVE ReplaceFrom(_, _, _, _)
ReplaceFrom(s, i, from, to) ==
    IF i > Len(s) THEN <<>>
    ELSE IF StartsWithAt(s, i, from) THEN to \o ReplaceFrom(s, i + Len(from), from, to)
    ELSE <<s[i]>> \o ReplaceFrom(s, i + 1, from, to)

\* s.replace(from, to): every non-overlapping occurrence, left to right
Replace(s, from, to) == ReplaceFrom(s, 1, from, to)

Count(s, c) == Cardinality({i \in 1..Len(s) : s[i] = c})

(***************************************************************************)
(* URLTransformRegistry                                                    *)
(***************************************************************************)
\* self.prefix_transformers: <<from_, to_>> pairs
prefix_transformers ==
    << << <<"{">>, <<"(", "?", "P", "<">> >> >>

\* suffix_transformers with a month pattern that lets "00" through
suffix_transformers_month_zero ==
    << << <<"!", "d", "}">>,
          <<">", "[", "0", "-", "9", "]", "+", "?", ")">> >>,
       << <<"!", "y", "e", "a", "r", "}">>,
          <<">", "[", "1", "-", "9", "]", "[", "0", "-", "9", "]", "{", "3", "}", ")">> >>,
       << <<"!", "m", "o", "n", "t", "h", "}">>,
          <<">", "(", "0", "[", "0", "-", "9", "]", "|", "1", "[", "0", "-", "2", "]", ")", ")">> >>,
       << <<"!", "d", "a", "y", "}">>,
          <<">", "(", "0", "[", "1", "-", "9", "]", "|", "[", "1", "2", "]", "\\", "d", "|",
            "3", "[", "0", "1", "]", ")", ")">> >>,
       << <<"!", "f", "}">>,
          <<">", "[", "0", "-", "9", "]", "+", "\\", ".", "[", "0", "-", "9", "]", "+", "?", ")">> >>,
       << <<"!", "x", "}">>,
          <<">", "[", "0", "-", "9", "a", "-", "f", "]", "+", "?", ")">> >>,
       << <<"!", "s", "l", "u", "g", "}">>,
          <<">", "[", "a", "-", "z", "0", "-", "9", "_", "-", "]", "+", "?", ")">> >>,
       << <<"!", "u", "u", "i", "d", "}">>,
          <<">", "[", "0", "-", "9", "a", "-", "f", "]", "{", "8", "}", "-",
                 "[", "0", "-", "9", "a", "-", "f", "]", "{", "4", "}", "-",
                 "[", "0", "-", "9", "a", "-", "f", "]", "{", "4", "}", "-",
                 "[", "0", "-", "9", "a", "-", "f", "]", "{", "4", "}", "-",
                 "[", "0", "-", "9", "a", "-", "f", "]", "{", "1", "2", "}", "|",
                 "[", "0", "-", "9", "a", "-", "f", "]", "{", "3", "2", "}", ")">> >>,
       << <<"!", "s", "}">>,
          <<">", ".", "+", "?", ")">> >> >>

\* self.suffix_transformers: <<from_, to_>> pairs.  No key occurs inside a
\* replacement and every replacement starts with ">" and ends with ")", so
\* the (arbitrary) dict iteration order does not change the result.
suffix_transformers ==
    << << <<"!", "d", "}">>,
          <<">", "[", "0", "-", "9", "]", "+", "?", ")">> >>,
       << <<"!", "y", "e", "a", "r", "}">>,
          <<">", "[", "1", "-", "9", "]", "[", "0", "-", "9", "]", "{", "3", "}", ")">> >>,
       << <<"!", "m", "o", "n", "t", "h", "}">>,
          <<">", "(", "0", "[", "1", "-", "9", "]", "|", "1", "[", "0", "-", "2", "]", ")", ")">> >>,
       << <<"!", "d", "a", "y", "}">>,
          <<">", "(", "0", "[", "1", "-", "9", "]", "|", "[", "1", "2", "]", "\\", "d", "|",
            "3", "[", "0", "1", "]", ")", ")">> >>,
       << <<"!", "f", "}">>,
          <<">", "[", "0", "-", "9", "]", "+", "\\", ".", "[", "0", "-", "9", "]", "+", "?", ")">> >>,
       << <<"!", "x", "}">>,
          <<">", "[", "0", "-", "9", "a", "-", "f", "]", "+", "?", ")">> >>,
       << <<"!", "s", "l", "u", "g", "}">>,
          <<">", "[", "a", "-", "z", "0", "-", "9", "_", "-", "]", "+", "?", ")">> >>,
       << <<"!", "u", "u", "i", "d", "}">>,
          <<">", "[", "0", "-", "9", "a", "-", "f", "]", "{", "8", "}", "-",
                 "[", "0", "-", "9", "a", "-", "f", "]", "{", "4", "}", "-",
                 "[", "0", "-", "9", "a", "-", "f", "]", "{", "4", "}", "-",
                 "[", "0", "-", "9", "a", "-", "f", "]", "{", "4", "}", "-",
                 "[", "0", "-", "9", "a", "-", "f", "]", "{", "1", "2", "}", "|",
                 "[", "0", "-", "9", "a", "-", "f", "]", "{", "3", "2", "}", ")">> >>,
       << <<"!", "s", "}">>,
          <<">", ".", "+", "?", ")">> >> >>

\* the inner loop of make over one transformer set, from entry k on; every
\* to_ is a string, which keepcalling returns unchanged
RECURSIVE ApplyTransformers(_, _, _)
ApplyTransformers(handler, k, path_updated) ==
    IF k > Len(handler) THEN path_updated
    ELSE LET from_ == handler[k][1]
             to_   == handler[k][2]
         IN ApplyTransformers(handler, k + 1,
                IF Contains(path_updated, from_)
                THEN Replace(path_updated, from_, to_)
                ELSE path_updated)

\* final_path without the closing "$" anchor
final_path_open_ended(path) ==
    LET path_updated ==
            ApplyTransformers(suffix_transformers, 1,
                ApplyTransformers(prefix_transformers, 1, path))
    IN IF ~StartsWithAt(path_updated, 1, <<"/">>)
       THEN <<"^", "/">> \o path_updated
       ELSE <<"^">> \o path_updated

\* the pattern text handed to re.compile by make(path)
final_path(path) ==
    LET path_updated ==
            ApplyTransformers(suffix_transformers, 1,
                ApplyTransformers(prefix_transformers, 1, path))
    IN IF ~StartsWithAt(path_updated, 1, <<"/">>)
       THEN <<"^", "/">> \o path_updated \o <<"$">>
       ELSE <<"^">> \o path_updated \o <<"$">>

(***************************************************************************)
(* The regular expressions make() can produce, as re.compile / regex.match *)
(* treat them: literals, ".", character classes, "\d" and escaped          *)
(* literals, groups "(...)" and "(?P<name>...)", alternation, and the      *)
(* quantifiers + * ? {n} with an optional lazy "?".  A match is computed   *)
(* as the set of subject positions reachable after a part of the pattern;  *)
(* laziness changes which text a group captures, never whether the         *)
(* anchored pattern matches.                                               *)
(***************************************************************************)
\* index of the "]" closing the class opened at i, 0 if there is none
ClassEnd(p, i) ==
    LET ks == {k \in (i + 1)..Len(p) : p[k] = "]"}
    IN IF ks = {} THEN 0 ELSE CHOOSE k \in ks : \A k2 \in ks : k <= k2

RECURSIVE ScanGroup(_, _, _)
ScanGroup(p, k, depth) ==
    IF k > Len(p) THEN 0
    ELSE CASE p[k] = "\\" -> ScanGroup(p, k + 2, depth)
           [] p[k] = "["  -> IF ClassEnd(p, k) = 0 THEN 0
                             ELSE ScanGroup(p, ClassEnd(p, k) + 1, depth)
           [] p[k] = "("  -> ScanGroup(p, k + 1, depth + 1)
           [] p[k] = ")"  -> IF depth = 1 THEN k ELSE ScanGroup(p, k + 1, depth - 1)
           [] OTHER       -> ScanGroup(p, k + 1, depth)

\* index of the ")" closing the group opened at i, 0 if there is none
GroupEnd(p, i) == ScanGroup(p, i + 1, 1)

\* index of the last character of the atom that starts at i
AtomEnd(p, i) ==
    CASE p[i] = "("  -> GroupEnd(p, i)
      [] p[i] = "["  -> ClassEnd(p, i)
      [] p[i] = "\\" -> i + 1
      [] OTHER       -> i

\* index of the first "|" of p[s..e] outside groups and classes, 0 if none
RECURSIVE FindBar(_, _, _)
FindBar(p, k, e) ==
    IF k > e THEN 0
    ELSE IF p[k] = "|" THEN k
    ELSE FindBar(p, AtomEnd(p, k) + 1, e)

\* the number written in p[a..b]
RECURSIVE NumVal(_, _, _)
NumVal(p, a, b) ==
    IF a > b THEN 0
    ELSE 10 * NumVal(p, a, b - 1) + (IndexIn(Digits, p[b]) - 1)

\* index of the first c at or after i, 0 if there is none
FirstAt(p, i, c) ==
    LET ks == {k \in i..Len(p) : p[k] = c}
    IN IF ks = {} THEN 0 ELSE CHOOSE k \in ks : \A k2 \in ks : k <= k2

\* the quantifier at q (within p[..e]): least and greatest repetition count
\* (max = -1: unbounded) and the index after it and its lazy mark
Quantifier(p, q, e) ==
    LET raw == IF q > e THEN [min |-> 1, max |-> 1, next |-> q]
               ELSE CASE p[q] = "+" -> [min |-> 1, max |-> -1, next |-> q + 1]
                      [] p[q] = "*" -> [min |-> 0, max |-> -1, next |-> q + 1]
                      [] p[q] = "?" -> [min |-> 0, max |-> 1, next |-> q + 1]
                      [] p[q] = "{" ->
                            LET n == NumVal(p, q + 1, FirstAt(p, q, "}") - 1)
                            IN [min |-> n, max |-> n, next |-> FirstAt(p, q, "}") + 1]
                      [] OTHER      -> [min |-> 1, max |-> 1, next |-> q]
    IN IF raw.next > q /\ raw.next <= e /\ p[raw.next] = "?"
       THEN [raw EXCEPT !.next = raw.next + 1]
       ELSE raw

\* c is one of the members of the class body p[a..b], under re.IGNORECASE
RECURSIVE InClass(_, _, _, _)
InClass(p, a, b, c) ==
    IF a > b THEN FALSE
    ELSE IF p[a] = "\\" /\ a + 1 <= b
         THEN \/ IF p[a + 1] = "d" THEN IsDigit(c) ELSE Lower(c) = Lower(p[a + 1])
              \/ InClass(p, a + 2, b, c)
    ELSE IF a + 2 <= b /\ p[a + 1] = "-"
         THEN \/ InCharRange(Lower(c), p[a], p[a + 2])
              \/ InCharRange(Upper(c), p[a], p[a + 2])
              \/ InClass(p, a + 3, b, c)
    ELSE \/ Lower(c) = Lower(p[a])
         \/ InClass(p, a + 1, b, c)

\* first index of the body of the group opened at s
GroupBody(p, s) ==
    IF s + 1 <= Len(p) /\ p[s + 1] = "?" THEN FirstAt(p, s, ">") + 1 ELSE s + 1

RECURSIVE MatchAlt(_, _, _, _, _)
RECURSIVE MatchSeq(_, _, _, _, _)
RECURSIVE MatchAtom(_, _, _, _, _)
RECURSIVE MatchRepeat(_, _, _, _, _, _, _)
RECURSIVE MatchStar(_, _, _, _, _)

\* positions of u reachable from a position of J by one match of the atom p[s..e]
MatchAtom(p, u, s, e, J) ==
    CASE p[s] = "^"  -> {j \in J : j = 1}
      [] p[s] = "$"  -> {j \in J : j = Len(u) + 1 \/ (j = Len(u) /\ u[j] = "\n")}
      [] p[s] = "("  -> MatchAlt(p, u, GroupBody(p, s), e - 1, J)
      [] p[s] = "["  -> {j + 1 : j \in {k \in J : k <= Len(u) /\ InClass(p, s + 1, e - 1, u[k])}}
      [] p[s] = "\\" -> {j + 1 : j \in {k \in J : /\ k <= Len(u)
                                                  /\ IF p[e] = "d" THEN IsDigit(u[k])
                                                     ELSE Lower(u[k]) = Lower(p[e])}}
      [] p[s] = "."  -> {j + 1 : j \in {k \in J : k <= Len(u) /\ u[k] # "\n"}}
      [] OTHER       -> {j + 1 : j \in {k \in J : k <= Len(u) /\ Lower(u[k]) = Lower(p[s])}}

\* zero or more matches of the atom
MatchStar(p, u, s, e, J) ==
    LET N == J \cup MatchAtom(p, u, s, e, J)
    IN IF N = J THEN J ELSE MatchStar(p, u, s, e, N)

\* between min and max matches of the atom
MatchRepeat(p, u, s, e, min, max, J) ==
    IF J = {} THEN {}
    ELSE IF min > 0
         THEN MatchRepeat(p, u, s, e, min - 1, IF max = -1 THEN -1 ELSE max - 1,
                          MatchAtom(p, u, s, e, J))
    ELSE IF max = -1 THEN MatchStar(p, u, s, e, J)
    ELSE IF max = 0 THEN J
    ELSE J \cup MatchRepeat(p, u, s, e, 0, max - 1, MatchAtom(p, u, s, e, J))

\* the concatenation p[s..e] of quantified atoms
MatchSeq(p, u, s, e, J) ==
    IF s > e \/ J = {} THEN J
    ELSE LET a == AtomEnd(p, s)
             q == Quantifier(p, a + 1, e)
         IN MatchSeq(p, u, q.next, e, MatchRepeat(p, u, s, a, q.min, q.max, J))

\* the alternation p[s..e]
MatchAlt(p, u, s, e, J) ==
    LET bar == FindBar(p, s, e)
    IN IF bar = 0 THEN MatchSeq(p, u, s, e, J)
       ELSE MatchSeq(p, u, s, bar - 1, J) \cup MatchAlt(p, u, bar + 1, e, J)

\* regex.match(value) is not None, for the compiled pattern text p
RegexMatch(p, u) == MatchAlt(p, u, 1, Len(p), {1}) # {}

\* names of the named groups of pattern text p, as strings
RECURSIVE Join(_)
Join(cs) == IF cs = <<>> THEN "" ELSE cs[1] \o Join(Tail(cs))

GroupNames(p) ==
    {Join(SubSeq(p, i + 4, FirstAt(p, i, ">") - 1)) :
        i \in {k \in 1..Len(p) : StartsWithAt(p, k, <<"(", "?", "P", "<">>)}}

\* a group name sre_parse accepts: an identifier
IsName(cs) ==
    /\ cs # <<>>
    /\ ~IsDigit(cs[1])
    /\ \A k \in DOMAIN cs :
          cs[k] \in Range(LowerLetters) \cup Range(UpperLetters) \cup Range(Digits) \cup {"_"}

\* the nesting depth after p[k..], -1 once a ")" closes nothing or a class
\* is left open
RECURSIVE ParenDepth(_, _, _)
ParenDepth(p, k, depth) ==
    IF k > Len(p) THEN depth
    ELSE CASE p[k] = "\\" -> ParenDepth(p, k + 2, depth)
           [] p[k] = "["  -> IF ClassEnd(p, k) = 0 THEN -1
                             ELSE ParenDepth(p, ClassEnd(p, k) + 1, depth)
           [] p[k] = "("  -> ParenDepth(p, k + 1, depth + 1)
           [] p[k] = ")"  -> IF depth = 0 THEN -1 ELSE ParenDepth(p, k + 1, depth - 1)
           [] OTHER       -> ParenDepth(p, k + 1, depth)

\* re.compile(p) raises sre_constants.error, for the pattern texts make()
\* builds: a "(?P<" whose name is not closed by ">" or is not an
\* identifier, a name used twice, or unbalanced parentheses
re_error(p) ==
    LET starts == {k \in 1..Len(p) : StartsWithAt(p, k, <<"(", "?", "P", "<">>)}
    IN \/ \E k \in starts :
            \/ FirstAt(p, k + 4, ">") = 0
            \/ ~IsName(SubSeq(p, k + 4, FirstAt(p, k + 4, ">") - 1))
       \/ Cardinality(GroupNames(p)) # Cardinality(starts)
       \/ ParenDepth(p, 1, 0) # 0

\* URLTransformRegistry.make: RoutePattern(raw=path, regex=re.compile(final_path))
make(path) == [raw |-> path, regex |-> final_path(path)]

(***************************************************************************)
(* Bounds and inputs                                                       *)
(***************************************************************************)
\* most entries a route table holds in the model
MaxRoutes == 2

\* most entries an exception route table holds in the model
MaxErrorRoutes == 2

\* raw templates offered to Router.add: "/a", "a", "/{x!s}"
Templates == { <<"/", "a">>, <<"a">>, <<"/", "{", "x", "!", "s", "}">> }

\* raw templates offered to Blanket.add: "a", "/{x!s}"
AppTemplates == { <<"a">>, <<"/", "{", "x", "!", "s", "}">> }

\* request paths: "/a" (matched by all three templates), "/b" (matched by
\* "/{x!s}" only), "/" (matched by none)
Paths == { <<"/", "a">>, <<"/", "b">>, <<"/">> }

\* outputs arguments: [JSON] and [JSON, mustache]
OutputLists == { <<"JSON">>, <<"JSON", "mustache">> }

(***************************************************************************)
(* Exception classes (blanket.py lines 33-38 and their Python 2 builtin    *)
(* ancestors)                                                              *)
(***************************************************************************)
ExceptionClasses ==
    {"Exception", "StandardError", "ValueError", "LookupError", "TypeError", "KeyError",
     "BlanketValueError", "BlanketLookupError", "NoOutputHandler", "NoRouteHandler",
     "NoErrorHandler", "DuplicateRoute", "error"}

\* the direct base class of each exception class
BaseOf ==
    [c \in ExceptionClasses |->
        CASE c = "Exception"          -> "BaseException"
          [] c = "StandardError"      -> "Exception"
          [] c = "ValueError"         -> "StandardError"
          [] c = "LookupError"        -> "StandardError"
          [] c = "TypeError"          -> "StandardError"
          [] c = "KeyError"           -> "LookupError"
          [] c = "BlanketValueError"  -> "ValueError"
          [] c = "BlanketLookupError" -> "LookupError"
          [] c = "NoOutputHandler"    -> "BlanketLookupError"
          [] c = "NoRouteHandler"     -> "BlanketLookupError"
          [] c = "NoErrorHandler"     -> "BlanketLookupError"
          [] c = "DuplicateRoute"     -> "BlanketValueError"
          [] c = "error"              -> "Exception"]

\* issubclass(c, d)
RECURSIVE issubclass(_, _)
issubclass(c, d) ==
    \/ c = d
    \/ c \in ExceptionClasses /\ issubclass(BaseOf[c], d)

\* exception classes offered to ErrorRouter.add
RegisteredClasses == {"Exception", "ValueError", "BlanketValueError"}

(***************************************************************************)
(* Values: None, data, requests, exception instances, outcomes of calls    *)
(***************************************************************************)
None == "None"

\* the request keyword when no request is passed (request=None)
NoRequest == [is_none |-> TRUE, path |-> <<>>, accept |-> FALSE]

\* webob.Request for an environ with this PATH_INFO; accept: an Accept header
\* is present
Request(path, accept) == [is_none |-> FALSE, path |-> path, accept |-> accept]

\* the exception keyword of a call that passes none
NoException ==
    [type |-> "", msg |-> "", path |-> <<>>, routes |-> {}, about |-> "", classes |-> {}]

\* an exception instance of class type
Exc(type, msg) == [NoException EXCEPT !.type = type, !.msg = msg]

Return(v, calls) == [kind |-> "return", value |-> v, exc |-> NoException, calls |-> calls]

Raise(e, calls) == [kind |-> "raise", value |-> None, exc |-> e, calls |-> calls]

\* keyword arguments of a call: the keyword names, and the values of the
\* request and exception keywords (a captured path segment is a string)
Kwargs(keys, request, exception) == [keys |-> keys, request |-> request, exception |-> exception]

(***************************************************************************)
(* Invocables.  Each has the argument list getargspec reports (args, the   *)
(* number of defaults, whether it takes **kwargs) and a body: what a call  *)
(* with acceptable keywords returns or raises.                             *)
(*   h_ok(request)                returns the context "A"                  *)
(*   h_none(request)              returns None                             *)
(*   h_raise(request)             raises BlanketValueError('test')         *)
(*   h_x(x, request=None)         returns the invocable h_x_inner          *)
(*   h_x_inner, taking **kwargs,  returns the context "B"                  *)
(*   e_ok(exception, request)     returns the context "E"                  *)
(*   e_raise(exception, request)  raises KeyError                          *)
(*   myfunc()                     returns the invocable myfunc_child, which *)
(*       returns myfunc_grandchild, which returns myfunc_great_grandchild,  *)
(*       which returns the context "great_grandchild" (test_many_level)     *)
(*   p_a1(request)                returns the mapping {a: 1}                *)
(*   p_a2b3, taking **kwargs,     returns the mapping {a: 2, b: 3}          *)
(*   p_deferred(request)          returns the invocable p_a1                *)
(*   spin, taking **kwargs,       returns itself                            *)
(*   ping, taking **kwargs,       returns the invocable pong, which takes   *)
(*       **kwargs and returns ping                                          *)
(***************************************************************************)
Invocables ==
    {"h_ok", "h_none", "h_raise", "h_x", "h_x_inner", "e_ok", "e_raise",
     "myfunc", "myfunc_child", "myfunc_grandchild", "myfunc_great_grandchild",
     "p_a1", "p_a2b3", "p_deferred", "spin", "ping", "pong"}

\* the invocables whose calls never lead to a value that is not invocable
Circular == {"spin", "ping", "pong"}

\* the nested functions of test_many_level, none of which takes a parameter
ManyLevel == {"myfunc", "myfunc_child", "myfunc_grandchild", "myfunc_great_grandchild"}

Signature ==
    [f \in Invocables |->
        CASE f = "h_x"       -> [args |-> <<"x", "request">>, defaults |-> 1, varkw |-> FALSE]
          [] f = "h_x_inner" -> [args |-> <<>>, defaults |-> 0, varkw |-> TRUE]
          [] f \in {"e_ok", "e_raise"}
                             -> [args |-> <<"exception", "request">>, defaults |-> 0, varkw |-> FALSE]
          [] f \in ManyLevel  -> [args |-> <<>>, defaults |-> 0, varkw |-> FALSE]
          [] f = "p_a2b3"    -> [args |-> <<>>, defaults |-> 0, varkw |-> TRUE]
          [] f \in Circular  -> [args |-> <<>>, defaults |-> 0, varkw |-> TRUE]
          [] OTHER           -> [args |-> <<"request">>, defaults |-> 0, varkw |-> FALSE]]

Body ==
    [f \in Invocables |->
        CASE f = "h_ok"      -> Return("A", <<>>)
          [] f = "h_none"    -> Return(None, <<>>)
          [] f = "h_raise"   -> Raise(Exc("BlanketValueError", "test"), <<>>)
          [] f = "h_x"       -> Return("h_x_inner", <<>>)
          [] f = "h_x_inner" -> Return("B", <<>>)
          [] f = "e_ok"      -> Return("E", <<>>)
          [] f = "e_raise"   -> Raise(Exc("KeyError", "lost"), <<>>)
          [] f = "myfunc"    -> Return("myfunc_child", <<>>)
          [] f = "myfunc_child"      -> Return("myfunc_grandchild", <<>>)
          [] f = "myfunc_grandchild" -> Return("myfunc_great_grandchild", <<>>)
          [] f = "myfunc_great_grandchild" -> Return("great_grandchild", <<>>)
          [] f = "p_a1"      -> Return("d_a1", <<>>)
          [] f = "p_a2b3"    -> Return("d_a2b3", <<>>)
          [] f = "p_deferred" -> Return("p_a1", <<>>)
          [] f = "spin"      -> Return("spin", <<>>)
          [] f = "ping"      -> Return("pong", <<>>)
          [] f = "pong"      -> Return("ping", <<>>)]

\* the mappings that handlers return, by the name of the dict object
Contexts == [d_a1 |-> ("a" :> 1), d_a2b3 |-> ("a" :> 2 @@ "b" :> 3)]

\* handlers offered to Router.add and to ErrorRouter.add
RouteHandlers == {"h_ok", "h_none", "h_raise", "h_x"}

ErrorHandlers == {"e_ok", "e_raise"}

\* callable(data)
callable(data) == data \in Invocables

\* the parameters of f that have no default
RequiredArgs(f) == SubSeq(Signature[f].args, 1, Len(Signature[f].args) - Signature[f].defaults)

\* calling f with keywords kwargs: Python raises TypeError for a missing or an unexpected keyword
Call(f, kwargs) ==
    IF \/ \E a \in Range(RequiredArgs(f)) : a \notin kwargs.keys
       \/ ~Signature[f].varkw /\ \E k \in kwargs.keys : k \notin Range(Signature[f].args)
    THEN Raise(Exc("TypeError", "arguments"), <<>>)
    ELSE Body[f]

\* keepcalling(data, kwargs); calls lists the calls made, in order
RECURSIVE keepcalling_from(_, _, _)
keepcalling_from(data, kwargs, calls) ==
    IF callable(data)
    THEN LET made == Append(calls, [fn |-> data, kwargs |-> kwargs])
             r    == Call(data, kwargs)
         IN IF r.kind = "raise" THEN Raise(r.exc, made)
            ELSE keepcalling_from(r.value, kwargs, made)
    ELSE Return(data, calls)

\* keepcalling with `if callable(data)` for `while callable(data)`
keepcalling_once(data, kwargs) ==
    IF callable(data)
    THEN LET r == Call(data, kwargs)
         IN [r EXCEPT !.calls = <<[fn |-> data, kwargs |-> kwargs]>>]
    ELSE Return(data, <<>>)

keepcalling(data, kwargs) == keepcalling_from(data, kwargs, <<>>)

(***************************************************************************)
(* Output                                                                  *)
(***************************************************************************)
\* Output.responds_to of the two outputs of the module
responds_to ==
    [JSON |-> {"application/json", "application/javascript"}, mustache |-> {"text/html"}]

\* Output.__contains__
Output_contains(output, item) == item \in responds_to[output]

\* json_renderer: json.dumps of the context, a string in double quotes and
\* None as null
json_renderer(req, context) ==
    IF context = None THEN Return("null", <<>>)
    ELSE Return("\"" \o context \o "\"", <<>>)

\* mustache_template_renderer for a context that is not a mapping: with
\* chevron importable, `in` on None raises TypeError and a string holds
\* neither key; without chevron NoOutputHandler is raised
mustache_template_renderer(chevron, req, context) ==
    IF ~chevron THEN Raise(Exc("NoOutputHandler", "chevron must be installed"), <<>>)
    ELSE IF context = None THEN Raise(Exc("TypeError", "not iterable"), <<>>)
    ELSE Return(None, <<>>)

\* Output.__call__(request, context): the trampoline over responds_with
Output_call(output, chevron, req, context) ==
    IF output = "JSON" THEN json_renderer(req, context)
    ELSE mustache_template_renderer(chevron, req, context)

(***************************************************************************)
(* Route and Router                                                        *)
(***************************************************************************)
\* regex.match for the patterns and paths of the model, computed once
MatchCache ==
    [pu \in {final_path(t) : t \in Templates} \X Paths |-> RegexMatch(pu[1], pu[2])]

\* Route.handles: self.pattern.regex.match(value) is not None
Route_handles(route, value) ==
    IF <<route.pattern.regex, value>> \in DOMAIN MatchCache
    THEN MatchCache[<<route.pattern.regex, value>>]
    ELSE RegexMatch(route.pattern.regex, value)

\* Route.__call__: the trampoline over the handler with request and the
\* named groups as keywords, or None when the path does not match
Route_call(route, request) ==
    IF Route_handles(route, request.path)
    THEN keepcalling(route.handler,
                     Kwargs({"request"} \cup GroupNames(route.pattern.regex), request, NoException))
    ELSE Return(None, <<>>)

\* Router.make_route
Router_make_route(route_value, handler, outputs) ==
    [pattern |-> route_value, handler |-> handler, outputs |-> outputs]

\* Router.__init__ and ErrorRouter.__init__
NewRouter == [routes |-> <<>>, seen_routes |-> {}]

\* Router.__len__ under Python 2 (len() truncates the float of the true division)
Router_len(self) == (Len(self.routes) + Cardinality(self.seen_routes)) \div 2

\* Router.__contains__ with all() for any()
Router_contains_all(self, item) ==
    \A i \in 1..Len(self.routes) : Route_handles(self.routes[i], item)

\* Router.__contains__
Router_contains(self, item) ==
    \E i \in 1..Len(self.routes) : Route_handles(self.routes[i], item)

\* Router.prepare without lines 274-275, which leave `request` out
\* re_error of the pattern texts of the templates offered to Router.add,
\* computed once
CompileCache == [t \in Templates |-> re_error(final_path(t))]

\* the exception make(path) raises instead of returning: that of re.compile
\* (line 134), NoException when the pattern compiles
make_error(path) ==
    IF (IF path \in DOMAIN CompileCache THEN CompileCache[path] ELSE re_error(final_path(path)))
    THEN Exc("error", "the pattern does not compile")
    ELSE NoException

\* transformer.make(path=value) as Router.prepare returns it or lets it raise
make_result(value) ==
    IF make_error(value) # NoException
    THEN [exc |-> make_error(value), pattern |-> [raw |-> value, regex |-> <<>>]]
    ELSE [exc |-> NoException, pattern |-> make(value)]

Router_prepare_counting_request(value, handler, outputs) ==
    LET required_arguments == RequiredArgs(handler)
        arguments_in_path  == Count(value, "{")
    IN IF Len(required_arguments) # arguments_in_path
       THEN [exc |-> Exc("BlanketValueError", "takes a different number of arguments"),
             pattern |-> [raw |-> value, regex |-> <<>>]]
       ELSE make_result(value)

\* Router.prepare: the pattern, or the exception raised (exc.type # "")
Router_prepare(value, handler, outputs) ==
    LET required_arguments == SelectSeq(RequiredArgs(handler), LAMBDA a : a # "request")
        arguments_in_path  == Count(value, "{")
    IN IF Len(required_arguments) # arguments_in_path
       THEN [exc |-> Exc("BlanketValueError", "takes a different number of arguments"),
             pattern |-> [raw |-> value, regex |-> <<>>]]
       ELSE make_result(value)

\* add_prepared without the duplicate check of lines 292-295
add_prepared_unchecked(self, prepared, route) ==
    IF prepared.exc # NoException
    THEN [self |-> self, outcome |-> Raise(prepared.exc, <<>>)]
    ELSE [self |-> [routes |-> Append(self.routes, route),
                    seen_routes |-> self.seen_routes \cup {prepared.pattern.raw}],
          outcome |-> Return(None, <<>>)]

\* add_prepared without line 300, which records the raw key in seen_routes
add_prepared_unrecorded(self, prepared, route) ==
    IF prepared.exc # NoException
    THEN [self |-> self, outcome |-> Raise(prepared.exc, <<>>)]
    ELSE IF prepared.pattern.raw \in self.seen_routes
    THEN [self |-> self,
          outcome |-> Raise(Exc("DuplicateRoute", "has already been added"), <<>>)]
    ELSE [self |-> [routes |-> Append(self.routes, route), seen_routes |-> self.seen_routes],
          outcome |-> Return(None, <<>>)]

\* add_prepared appending the route before the duplicate check
add_prepared_append_first(self, prepared, route) ==
    IF prepared.exc # NoException
    THEN [self |-> self, outcome |-> Raise(prepared.exc, <<>>)]
    ELSE IF prepared.pattern.raw \in self.seen_routes
    THEN [self |-> [self EXCEPT !.routes = Append(self.routes, route)],
          outcome |-> Raise(Exc("DuplicateRoute", "has already been added"), <<>>)]
    ELSE [self |-> [routes |-> Append(self.routes, route),
                    seen_routes |-> self.seen_routes \cup {prepared.pattern.raw}],
          outcome |-> Return(None, <<>>)]

\* the part of Router.add after prepare, shared with ErrorRouter: the
\* router after the call and the outcome of the call
add_prepared(self, prepared, route) ==
    IF prepared.exc # NoException
    THEN [self |-> self, outcome |-> Raise(prepared.exc, <<>>)]
    ELSE IF prepared.pattern.raw \in self.seen_routes
    THEN [self |-> self,
          outcome |-> Raise(Exc("DuplicateRoute", "has already been added"), <<>>)]
    ELSE [self |-> [routes |-> Append(self.routes, route),
                    seen_routes |-> self.seen_routes \cup {prepared.pattern.raw}],
          outcome |-> Return(None, <<>>)]

\* Router.add(thing, handler, outputs)
Router_add_result(self, thing, handler, outputs) ==
    LET prepared == Router_prepare(thing, handler, outputs)
    IN add_prepared(self, prepared, Router_make_route(prepared.pattern, handler, outputs))

\* the loop of Router.__call__ from route i on
RECURSIVE Router_loop(_, _, _, _)
Router_loop(self, i, request, calls) ==
    IF i > Len(self.routes)
    THEN Raise([Exc("NoRouteHandler", "does not match any of the given routes")
                    EXCEPT !.path = request.path, !.routes = self.seen_routes], calls)
    ELSE LET result == Route_call(self.routes[i], request)
         IN IF result.kind = "raise" THEN Raise(result.exc, calls \o result.calls)
            ELSE IF result.value # None THEN Return(result.value, calls \o result.calls)
            ELSE Router_loop(self, i + 1, request, calls \o result.calls)

\* Router.__call__ trying the routes latest-registered first
Router_call_latest_first(self, request) ==
    IF ~Router_contains(self, request.path)
    THEN Raise(Exc("Exception", "reminder to self, change this"), <<>>)
    ELSE Router_loop([self EXCEPT !.routes = [i \in 1..Len(self.routes) |->
                                                self.routes[Len(self.routes) + 1 - i]]],
                     1, request, <<>>)

\* Router.__call__ returning what the first matching route gives, None
\* included
Router_call_first_result(self, request) ==
    IF ~Router_contains(self, request.path)
    THEN Raise(Exc("Exception", "reminder to self, change this"), <<>>)
    ELSE LET handling == {i \in 1..Len(self.routes) :
                              Route_handles(self.routes[i], request.path)}
         IN Route_call(self.routes[CHOOSE i \in handling : \A j \in handling : i <= j],
                       request)

\* Router.__call__(request)
Router_call(self, request) ==
    IF ~Router_contains(self, request.path)
    THEN Raise(Exc("Exception", "reminder to self, change this"), <<>>)
    ELSE Router_loop(self, 1, request, <<>>)

(***************************************************************************)
(* ErrorRoute and ErrorRouter                                              *)
(***************************************************************************)
\* ErrorRoute.handles with the subclass test taken in both directions
ErrorRoute_handles_either_way(route, value) ==
    \/ issubclass(value.type, route.exception_class.raw)
    \/ issubclass(route.exception_class.raw, value.type)

\* ErrorRoute.handles(value) for an exception instance
ErrorRoute_handles(route, value) ==
    issubclass(value.type, route.exception_class.raw)

\* ErrorRouter.make_route
ErrorRouter_make_route(route_value, handler, outputs) ==
    [exception_class |-> route_value, handler |-> handler, outputs |-> outputs]

\* ErrorRouter.prepare: RoutePattern(raw=value, regex=None)
ErrorRouter_prepare(value, handler, outputs) ==
    [exc |-> NoException, pattern |-> [raw |-> value, regex |-> <<>>]]

\* ErrorRouter.add refusing a class whose subclass or base class is registered
ErrorRouter_add_result_related(self, thing, handler, outputs) ==
    IF \E c \in self.seen_routes : issubclass(c, thing) \/ issubclass(thing, c)
    THEN [self |-> self,
          outcome |-> Raise(Exc("DuplicateRoute", "has already been added"), <<>>)]
    ELSE [self |-> [routes |-> Append(self.routes,
                                      ErrorRouter_make_route([raw |-> thing, regex |-> <<>>],
                                                             handler, outputs)),
                    seen_routes |-> self.seen_routes \cup {thing}],
          outcome |-> Return(None, <<>>)]

\* ErrorRouter.add(thing, handler, outputs), inherited from Router
ErrorRouter_add_result(self, thing, handler, outputs) ==
    LET prepared == ErrorRouter_prepare(thing, handler, outputs)
    IN add_prepared(self, prepared, ErrorRouter_make_route(prepared.pattern, handler, outputs))

\* the loop of ErrorRouter.__call__ from route i on
RECURSIVE ErrorRouter_loop(_, _, _, _)
ErrorRouter_loop(self, i, exception, request) ==
    IF i > Len(self.routes)
    THEN Raise([Exc("NoErrorHandler", "does not match any of the given error types")
                    EXCEPT !.about = exception.type, !.classes = self.seen_routes], <<>>)
    ELSE IF ErrorRoute_handles(self.routes[i], exception)
         THEN keepcalling(self.routes[i].handler,
                          Kwargs({"exception", "request"}, request, exception))
         ELSE ErrorRouter_loop(self, i + 1, exception, request)

\* ErrorRouter.__call__ going through the entries latest-registered first
ErrorRouter_call_latest_first(self, exception, request) ==
    ErrorRouter_loop([self EXCEPT !.routes = [i \in 1..Len(self.routes) |->
                                                self.routes[Len(self.routes) + 1 - i]]],
                     1, exception, request)

\* ErrorRouter.__call__ preferring the entry of the exception's own class
ErrorRouter_call_exact_first(self, exception, request) ==
    IF \E i \in 1..Len(self.routes) : self.routes[i].exception_class.raw = exception.type
    THEN keepcalling(self.routes[CHOOSE i \in 1..Len(self.routes) :
                                    self.routes[i].exception_class.raw = exception.type].handler,
                     Kwargs({"exception", "request"}, request, exception))
    ELSE ErrorRouter_loop(self, 1, exception, request)

\* ErrorRouter.__call__(exception, request=None)
ErrorRouter_call(self, exception, request) == ErrorRouter_loop(self, 1, exception, request)

(***************************************************************************)
(* ManyHandler                                                             *)
(***************************************************************************)
\* hasattr(value, '__iter__') for a value of the given Python 2 type (a str
\* has no __iter__ in Python 2)
has_iter(type) == type \in {"list", "tuple", "dict", "set"}

\* ManyHandler.__init__(handlers): handlers is a Python value, its type and,
\* for a collection, its items.  Reading handlers.__iter__ raises
\* AttributeError for a value without that attribute; nothing converts it.
ManyHandler_init(handlers) ==
    IF has_iter(handlers.type)
    THEN [exc |-> NoException, self |-> [handlers |-> handlers.items]]
    ELSE [exc |-> Exc("AttributeError", "object has no attribute __iter__"),
          self |-> [handlers |-> <<>>]]

\* the dict comprehension of ManyHandler.__call__ from handler i on: merged
\* holds the items of the contexts before i.  A context that is neither None
\* nor a mapping has no iteritems (AttributeError).
RECURSIVE ManyHandler_loop(_, _, _, _, _)
ManyHandler_loop(self, i, kwargs, merged, calls) ==
    IF i > Len(self.handlers) THEN Return(merged, calls)
    ELSE LET context == keepcalling(self.handlers[i], kwargs)
             made    == calls \o context.calls
         IN IF context.kind = "raise" THEN Raise(context.exc, made)
            ELSE IF context.value = None
            THEN ManyHandler_loop(self, i + 1, kwargs, merged, made)
            ELSE IF context.value \notin DOMAIN Contexts
            THEN Raise(Exc("AttributeError", "no attribute iteritems"), made)
            ELSE ManyHandler_loop(self, i + 1, kwargs, Contexts[context.value] @@ merged, made)

\* ManyHandler.__call__ keeping the first value of a key
ManyHandler_call_first_wins(self, kwargs) ==
    LET r == ManyHandler_loop([handlers |-> [i \in 1..Len(self.handlers) |->
                                               self.handlers[Len(self.handlers) + 1 - i]]],
                              1, kwargs, <<>>, <<>>)
        straight == ManyHandler_loop(self, 1, kwargs, <<>>, <<>>)
    IN IF r.kind = "return" THEN Return(r.value, straight.calls) ELSE straight

\* ManyHandler.__call__(**kwargs)
ManyHandler_call(self, kwargs) == ManyHandler_loop(self, 1, kwargs, <<>>, <<>>)

(***************************************************************************)
(* Blanket.add                                                             *)
(***************************************************************************)
\* Blanket.add taking `path` when both keywords are given
Blanket_add_result_path_first(rt, ert, handler, outputs, given, path, exception_class) ==
    IF given = {}
    THEN [router |-> rt, error_router |-> ert,
          outcome |-> Raise(Exc("BlanketValueError", "Must provide either"), <<>>)]
    ELSE IF "path" \in given
    THEN LET r == Router_add_result(rt, path, handler, outputs)
         IN [router |-> r.self, error_router |-> ert, outcome |-> r.outcome]
    ELSE LET r == ErrorRouter_add_result(ert, exception_class, handler, outputs)
         IN [router |-> rt, error_router |-> r.self, outcome |-> r.outcome]

\* Blanket.add(handler, outputs, path=None, exception_class=None); given is
\* the set of the two keywords that are not None.  The application's two
\* routers after the call, and the outcome of the call.
Blanket_add_result(rt, ert, handler, outputs, given, path, exception_class) ==
    IF given = {}
    THEN [router |-> rt, error_router |-> ert,
          outcome |-> Raise(Exc("BlanketValueError", "Must provide either"), <<>>)]
    ELSE IF given = {"path", "exception_class"}
    THEN [router |-> rt, error_router |-> ert,
          outcome |-> Raise(Exc("BlanketValueError", "Cannot pass both"), <<>>)]
    ELSE IF "path" \in given
    THEN LET r == Router_add_result(rt, path, handler, outputs)
         IN [router |-> r.self, error_router |-> ert, outcome |-> r.outcome]
    ELSE LET r == ErrorRouter_add_result(ert, exception_class, handler, outputs)
         IN [router |-> rt, error_router |-> r.self, outcome |-> r.outcome]

(***************************************************************************)
(* State                                                                   *)
(***************************************************************************)
VARIABLES
    router,             \* Blanket.router, or a Router: [routes, seen_routes]
    error_router,       \* Blanket.error_router, or an ErrorRouter: [routes, seen_routes]
    last,               \* the latest call made and its outcome
    pc,                 \* position of the get_response call in progress
    environ,            \* get_response: its environ argument
    request,            \* get_response: the local `request`
    exc,                \* get_response: the exception caught (`exc`)
    err_request,        \* get_response: the request keyword passed to error_router
    origin,             \* get_response: the position where exc was caught
    error_dispatches    \* get_response: calls of error_router made by this call

vars == <<router, error_router, last, pc, environ, request, exc, err_request,
          origin, error_dispatches>>

frame == <<pc, environ, request, exc, err_request, origin, error_dispatches>>

\* environ arguments of get_response: something that is not a dict (Request()
\* raises TypeError), an environ without HTTP_ACCEPT, and environs with it
NoEnviron == [is_dict |-> FALSE, path |-> <<>>, accept |-> FALSE]

Environs ==
    {NoEnviron, [is_dict |-> TRUE, path |-> <<"/", "a">>, accept |-> FALSE]}
        \cup {[is_dict |-> TRUE, path |-> p, accept |-> TRUE] : p \in Paths}

\* exceptions handed to ErrorRouter.__call__ directly
DispatchedExceptions ==
    {Exc("BlanketValueError", "test"), Exc("ValueError", "4"), Exc("TypeError", "Hello!"),
     Exc("KeyError", "test"), Exc("Exception", "boom")}

\* requests handed to ErrorRouter.__call__ directly
DispatchedRequests == {NoRequest, Request(<<"/", "a">>, TRUE)}

\* a get_response call has returned or raised, or none was made
Quiescent == pc \in {"idle", "Responded", "Raised"}

Pending == [kind |-> "pending", value |-> None, exc |-> NoException, calls |-> <<>>]

\* the frame of a get_response call that is not the one being stepped: none
NoFrame ==
    [pc |-> "idle", environ |-> NoEnviron, request |-> NoRequest, exc |-> NoException,
     err_request |-> NoRequest, origin |-> "", error_dispatches |-> 0, outcome |-> Pending]

NoCall ==
    [op |-> "none", thing |-> <<>>, exception_class |-> "", handler |-> "", outputs |-> <<>>,
     pattern |-> [raw |-> <<>>, regex |-> <<>>], value |-> <<>>,
     started |-> None, iterations |-> 0,
     request |-> NoRequest, exception |-> NoException, environ |-> NoEnviron,
     data |-> None, kwargs |-> Kwargs({}, NoRequest, NoException), handlers |-> <<>>,
     given |-> {}, other |-> NoFrame,
     outcome |-> Pending]

\* Blanket.__init__ (Router.__init__ for both routers), no call made yet
Init ==
    /\ router = NewRouter
    /\ error_router = NewRouter
    /\ last = NoCall
    /\ pc = "idle"
    /\ environ = NoEnviron
    /\ request = NoRequest
    /\ exc = NoException
    /\ err_request = NoRequest
    /\ origin = ""
    /\ error_dispatches = 0

(***************************************************************************)
(* Calls on a Router and on an ErrorRouter                                 *)
(***************************************************************************)
\* Router.add(thing, handler, outputs)
Router_add(thing, handler, outputs) ==
    \E r \in {Router_add_result(router, thing, handler, outputs)} :
       /\ Len(r.self.routes) <= MaxRoutes
       /\ router' = r.self
       /\ last' = [NoCall EXCEPT !.op = "Router.add", !.thing = thing, !.handler = handler,
                                 !.outputs = outputs, !.outcome = r.outcome]
       /\ UNCHANGED <<error_router, frame>>

\* Router.__call__(request)
Router_dispatch(req) ==
    /\ last' = [NoCall EXCEPT !.op = "Router.__call__", !.request = req,
                              !.outcome = Router_call(router, req)]
    /\ UNCHANGED <<router, error_router, frame>>

\* `item in router`
Router_membership(item) ==
    /\ last' = [NoCall EXCEPT !.op = "Router.__contains__", !.request = Request(item, TRUE),
                              !.outcome = Return(IF Router_contains(router, item)
                                                 THEN "True" ELSE "False", <<>>)]
    /\ UNCHANGED <<router, error_router, frame>>

\* ErrorRouter.add(thing, handler, outputs)
ErrorRouter_add(thing, handler, outputs) ==
    \E r \in {ErrorRouter_add_result(error_router, thing, handler, outputs)} :
       /\ Len(r.self.routes) <= MaxErrorRoutes
       /\ error_router' = r.self
       /\ last' = [NoCall EXCEPT !.op = "ErrorRouter.add", !.exception_class = thing,
                                 !.handler = handler, !.outputs = outputs,
                                 !.outcome = r.outcome]
       /\ UNCHANGED <<router, frame>>

\* ErrorRouter.__call__(exception, request)
ErrorRouter_dispatch(exception, req) ==
    /\ last' = [NoCall EXCEPT !.op = "ErrorRouter.__call__", !.exception = exception,
                              !.request = req,
                              !.outcome = ErrorRouter_call(error_router, exception, req)]
    /\ UNCHANGED <<router, error_router, frame>>

\* a Router used alone (test_router.py)
NextRouter ==
    \/ \E t \in Templates, h \in RouteHandlers, o \in OutputLists : Router_add(t, h, o)
    \/ \E p \in Paths : Router_dispatch(Request(p, TRUE))
    \/ \E p \in Paths : Router_membership(p)

SpecRouter == Init /\ [][NextRouter]_vars

\* an ErrorRouter used alone (test_router_for_exceptions.py)
NextErrorRouter ==
    \/ \E c \in RegisteredClasses, h \in ErrorHandlers, o \in OutputLists :
            ErrorRouter_add(c, h, o)
    \/ \E e \in DispatchedExceptions, r \in DispatchedRequests : ErrorRouter_dispatch(e, r)

SpecErrorRouter == Init /\ [][NextErrorRouter]_vars

(***************************************************************************)
(* Calls of keepcalling                                                    *)
(***************************************************************************)
\* data handed to keepcalling: the invocables and three values that are not
Data == (Invocables \ Circular) \cup {"A", "great_grandchild", None}

\* keyword arguments handed to keepcalling
KeywordArguments ==
    {Kwargs(keys, r, e) :
        keys \in SUBSET {"request", "exception", "x"},
        r \in {NoRequest, Request(<<"/", "a">>, TRUE)},
        e \in {NoException, Exc("ValueError", "4")}}

\* keepcalling(data, **kwargs)
keepcalling_call(data, kwargs) ==
    /\ last' = [NoCall EXCEPT !.op = "keepcalling", !.data = data, !.kwargs = kwargs,
                              !.outcome = keepcalling(data, kwargs)]
    /\ UNCHANGED <<router, error_router, frame>>

\* keepcalling used alone (test_keepcalling.py)
NextKeepcalling == \E d \in Data, k \in KeywordArguments : keepcalling_call(d, k)

SpecKeepcalling == Init /\ [][NextKeepcalling]_vars

(***************************************************************************)
(* The loop of keepcalling, one iteration at a time.  last.started is the  *)
(* argument, last.data the local variable data, last.iterations the number *)
(* of calls made so far, counted up to MaxIterations.                      *)
(***************************************************************************)
MaxIterations == 3

\* the loop of a keepcalling call is running
Looping == last.op = "keepcalling.while" /\ last.outcome.kind = "pending"

\* values handed to keepcalling, the circular invocables among them
LoopData == Data \cup Circular

\* keepcalling(data, **kwargs) is entered
keepcalling_enter(data, kwargs) ==
    /\ ~Looping
    /\ last' = [NoCall EXCEPT !.op = "keepcalling.while", !.started = data, !.data = data,
                              !.kwargs = kwargs]
    /\ UNCHANGED <<router, error_router, frame>>

\* one iteration with a check of the number of calls made, which the code
\* does not have
keepcalling_iterate_guarded ==
    /\ Looping
    /\ last' = IF ~callable(last.data)
               THEN [last EXCEPT !.outcome = Return(last.data, <<>>)]
               ELSE IF last.iterations >= MaxIterations
               THEN [last EXCEPT !.outcome = Raise(Exc("RuntimeError", "too deep"), <<>>)]
               ELSE IF Call(last.data, last.kwargs).kind = "raise"
               THEN [last EXCEPT !.outcome = Raise(Call(last.data, last.kwargs).exc, <<>>)]
               ELSE [last EXCEPT !.data = Call(last.data, last.kwargs).value,
                                 !.iterations = last.iterations + 1]
    /\ UNCHANGED <<router, error_router, frame>>

\* one test of `while callable(data)` and, when it holds, one
\* `data = data(**kwargs)`; `return data` when it does not
keepcalling_iterate ==
    /\ Looping
    /\ last' = IF ~callable(last.data)
               THEN [last EXCEPT !.outcome = Return(last.data, <<>>)]
               ELSE IF Call(last.data, last.kwargs).kind = "raise"
               THEN [last EXCEPT !.outcome = Raise(Call(last.data, last.kwargs).exc, <<>>)]
               ELSE [last EXCEPT !.data = Call(last.data, last.kwargs).value,
                                 !.iterations = IF last.iterations < MaxIterations
                                                THEN last.iterations + 1
                                                ELSE MaxIterations]
    /\ UNCHANGED <<router, error_router, frame>>

NextKeepcallingLoop ==
    \/ \E d \in LoopData, k \in KeywordArguments : keepcalling_enter(d, k)
    \/ keepcalling_iterate

\* the interpreter keeps running the loop it has entered
SpecKeepcallingLoop ==
    Init /\ [][NextKeepcallingLoop]_vars /\ WF_vars(keepcalling_iterate)

(***************************************************************************)
(* The template compiler used alone, as test_urltransform.py uses it:      *)
(* urls.make(template) and then .regex.match(value) on the result          *)
(***************************************************************************)
\* templates of literal text: "a", "/a", "a/b", "/a.b"
LiteralTemplates ==
    {<<"a">>, <<"/", "a">>, <<"a", "/", "b">>, <<"/", "a", ".", "b">>}

\* templates with one placeholder, without and with a kind: "/{x}", "/{x!s}"
PlaceholderTemplates ==
    {<<"/", "{", "x", "}">>, <<"/", "{", "x", "!", "s", "}">>}

\* templates of the date kinds: "/{y!year}", "/{m!month}", "/{d!day}",
\* "{y!year}/{m!month}/{d!day}"
DateTemplates ==
    {<<"/", "{", "y", "!", "y", "e", "a", "r", "}">>,
     <<"/", "{", "m", "!", "m", "o", "n", "t", "h", "}">>,
     <<"/", "{", "d", "!", "d", "a", "y", "}">>,
     <<"{", "y", "!", "y", "e", "a", "r", "}", "/", "{", "m", "!", "m", "o", "n", "t", "h", "}", "/", "{", "d", "!", "d", "a", "y", "}">>}

MakeTemplates == LiteralTemplates \cup PlaceholderTemplates \cup DateTemplates

\* subjects of regex.match: paths around the literal templates (other case,
\* longer, shorter, a trailing newline), every "/dd" of two digits, other
\* digit strings, and dates
MatchValues ==
    {<<"/", "a">>, <<"/", "A">>, <<"/", "a", "/", "b">>, <<"/", "A", "/", "b">>,
     <<"/", "a", "b">>, <<"/">>, <<"a">>, <<"/", "a", "\n">>,
     <<"/", "a", "/", "b", "\n">>, <<"/", "a", "/">>, <<"/", "a", "x", "b">>,
     <<"/", "a", ".", "b">>, <<"/", "a", ".", "B", "\n">>, <<"/", "b">>,
     <<"/", "a", "/", "b", "/", "c">>}
    \cup {<<"/", a, b>> : a \in Range(Digits), b \in Range(Digits)}
    \cup {<<"/", "1">>, <<"/", "0", "0", "1">>, <<"/", "1", "a">>,
          <<"/", "9", "9", "9">>, <<"/", "1", "0", "0", "0">>,
          <<"/", "9", "9", "9", "9">>, <<"/", "0", "9", "9", "9">>,
          <<"/", "1", "0", "0", "0", "0">>, <<"/", "2", "0", "0", "0">>,
          <<"/", "9", "9", "a", "9">>}
    \cup {<<"/", "2", "0", "0", "0", "/", "0", "1", "/", "0", "2">>,
          <<"/", "1", "0", "0", "0", "/", "1", "2", "/", "1", "5">>,
          <<"/", "9", "9", "9", "/", "0", "1", "/", "0", "1">>,
          <<"/", "2", "0", "0", "0", "/", "1", "3", "/", "0", "1">>,
          <<"/", "2", "0", "0", "0", "/", "0", "0", "/", "0", "1">>,
          <<"/", "2", "0", "0", "0", "/", "0", "1", "/", "3", "2">>,
          <<"/", "2", "0", "0", "0", "/", "0", "1", "/", "0", "0">>,
          <<"/", "2", "0", "0", "0", "/", "0", "2", "/", "3", "1">>,
          <<"/", "2", "0", "0", "0", "/", "1", "/", "1">>,
          <<"/", "2", "0", "0", "0", "/", "0", "1">>}

\* regex.match of every pattern the templates compile to on every subject,
\* computed once
MakeMatchCache ==
    [pv \in {final_path(t) : t \in {m \in MakeTemplates : ~re_error(final_path(m))}}
                \X MatchValues |-> RegexMatch(pv[1], pv[2])]

\* make of every template, computed once
MakeCache == [t \in MakeTemplates |-> make_result(t)]

\* URLTransformRegistry().make(path)
make_call(path) ==
    /\ \E r \in {MakeCache[path]} :
          last' = [NoCall EXCEPT !.op = "URLTransformRegistry.make", !.thing = path,
                                 !.pattern = r.pattern,
                                 !.outcome = IF r.exc # NoException THEN Raise(r.exc, <<>>)
                                             ELSE Return("RoutePattern", <<>>)]
    /\ UNCHANGED <<router, error_router, frame>>

\* .regex.match(value) on the RoutePattern the latest make returned
regex_match(value) ==
    /\ last.op \in {"URLTransformRegistry.make", "regex.match"}
    /\ last.outcome.kind = "return"
    /\ last' = [last EXCEPT !.op = "regex.match", !.value = value,
                            !.outcome = Return(IF MakeMatchCache[<<last.pattern.regex, value>>]
                                               THEN "True" ELSE "False", <<>>)]
    /\ UNCHANGED <<router, error_router, frame>>

NextMake ==
    \/ \E t \in MakeTemplates : make_call(t)
    \/ \E v \in MatchValues : regex_match(v)

SpecMake == Init /\ [][NextMake]_vars

(***************************************************************************)
(* Calls of a ManyHandler                                                  *)
(***************************************************************************)
MaxProducers == 2

\* handlers given to a ManyHandler
Producers == {"p_a1", "p_a2b3", "p_deferred", "h_none", "h_ok", "h_raise"}

ProducerLists == UNION {[1..n -> Producers] : n \in 0..MaxProducers}

\* values given as the handlers argument: lists of producers, and the values
\* that are not collections (a number, None, one producer not put in a list)
HandlerValues ==
    {[type |-> "list", items |-> hs] : hs \in ProducerLists}
        \cup {[type |-> "int", items |-> <<>>], [type |-> "NoneType", items |-> <<>>]}
        \cup {[type |-> "function", items |-> <<p>>] : p \in Producers}

\* keyword arguments a ManyHandler is called with
ManyHandlerKeywords ==
    {Kwargs({}, NoRequest, NoException)}
        \cup {Kwargs({"request"}, r, NoException) : r \in {NoRequest, Request(<<"/", "a">>, TRUE)}}

\* ManyHandler(handlers)(**kwargs): the call is made only when the
\* construction returned
ManyHandler_dispatch(handlers, kwargs) ==
    /\ \E made \in {ManyHandler_init(handlers)} :
          last' = [NoCall EXCEPT
                     !.op = IF made.exc # NoException THEN "ManyHandler.__init__"
                            ELSE "ManyHandler.__call__",
                     !.handlers = handlers.items,
                     !.data = handlers.type,
                     !.kwargs = kwargs,
                     !.outcome = IF made.exc # NoException THEN Raise(made.exc, <<>>)
                                 ELSE ManyHandler_call(made.self, kwargs)]
    /\ UNCHANGED <<router, error_router, frame>>

NextManyHandler == \E hs \in HandlerValues, k \in ManyHandlerKeywords : ManyHandler_dispatch(hs, k)

SpecManyHandler == Init /\ [][NextManyHandler]_vars

(***************************************************************************)
(* Calls on a Blanket application                                          *)
(***************************************************************************)
\* Blanket.add(handler, outputs, path, exception_class)
Blanket_add(handler, outputs, given, path, exception_class) ==
    \E r \in {Blanket_add_result(router, error_router, handler, outputs, given, path,
                                 exception_class)} :
       /\ Quiescent
       /\ Len(r.router.routes) <= MaxRoutes
       /\ Len(r.error_router.routes) <= MaxErrorRoutes
       /\ router' = r.router
       /\ error_router' = r.error_router
       /\ last' = [NoCall EXCEPT !.op = "Blanket.add", !.given = given, !.thing = path,
                                 !.exception_class = exception_class, !.handler = handler,
                                 !.outputs = outputs, !.outcome = r.outcome]
       /\ pc' = "idle"
       /\ environ' = NoEnviron
       /\ request' = NoRequest
       /\ exc' = NoException
       /\ err_request' = NoRequest
       /\ origin' = ""
       /\ error_dispatches' = 0

\* Blanket.get_response(environ) is called
get_response(env) ==
    /\ Quiescent
    /\ pc' = "Start"
    /\ environ' = env
    /\ request' = NoRequest
    /\ exc' = NoException
    /\ err_request' = NoRequest
    /\ origin' = ""
    /\ error_dispatches' = 0
    /\ last' = [NoCall EXCEPT !.op = "get_response", !.environ = env]
    /\ UNCHANGED <<router, error_router>>

\* get_response without the length check of lines 496-501
get_response_len_check_skipped ==
    /\ pc = "Start"
    /\ pc' = "RequestBuilding"
    /\ UNCHANGED <<exc, origin, err_request>>
    /\ UNCHANGED <<router, error_router, last, environ, request, error_dispatches>>

\* lines 496-501: no routes at all is a NoRouteHandler, dispatched without a request
get_response_len_check ==
    /\ pc = "Start"
    /\ IF Router_len(router) < 1
       THEN /\ exc' = Exc("NoRouteHandler", "No routes are defined")
            /\ origin' = "Start"
            /\ err_request' = NoRequest
            /\ pc' = "ErrorDispatch"
       ELSE /\ pc' = "RequestBuilding"
            /\ UNCHANGED <<exc, origin, err_request>>
    /\ UNCHANGED <<router, error_router, last, environ, request, error_dispatches>>

\* get_response_build_request handing the request it built to error_router
\* when the Accept header is missing
get_response_build_request_with_request ==
    /\ pc = "RequestBuilding"
    /\ IF ~environ.is_dict
       THEN /\ exc' = Exc("TypeError", "WSGI environ must be a dict")
            /\ origin' = "RequestBuilding"
            /\ err_request' = NoRequest
            /\ pc' = "ErrorDispatch"
            /\ UNCHANGED request
       ELSE /\ request' = Request(environ.path, environ.accept)
            /\ IF ~environ.accept
               THEN /\ exc' = Exc("BlanketValueError", "no HTTP_ACCEPT header")
                    /\ origin' = "RequestBuilding"
                    /\ err_request' = request'
                    /\ pc' = "ErrorDispatch"
               ELSE /\ pc' = "RouteLookup"
                    /\ UNCHANGED <<exc, origin, err_request>>
    /\ UNCHANGED <<router, error_router, last, environ, error_dispatches>>

\* lines 503-513: build the Request and require an Accept header; a failure
\* is dispatched without a request
get_response_build_request ==
    /\ pc = "RequestBuilding"
    /\ IF ~environ.is_dict
       THEN /\ exc' = Exc("TypeError", "WSGI environ must be a dict")
            /\ origin' = "RequestBuilding"
            /\ err_request' = NoRequest
            /\ pc' = "ErrorDispatch"
            /\ UNCHANGED request
       ELSE /\ request' = Request(environ.path, environ.accept)
            /\ IF ~environ.accept
               THEN /\ exc' = Exc("BlanketValueError", "no HTTP_ACCEPT header")
                    /\ origin' = "RequestBuilding"
                    /\ err_request' = NoRequest
                    /\ pc' = "ErrorDispatch"
               ELSE /\ pc' = "RouteLookup"
                    /\ UNCHANGED <<exc, origin, err_request>>
    /\ UNCHANGED <<router, error_router, last, environ, error_dispatches>>

\* get_response_route without the try/except of lines 516-522
get_response_route_uncaught ==
    /\ pc = "RouteLookup"
    /\ \E r \in {Router_call(router, request)} :
          /\ pc' = IF r.kind = "return" THEN "Responded" ELSE "Raised"
          /\ last' = [last EXCEPT !.outcome = r]
    /\ UNCHANGED <<router, error_router, environ, request, exc, origin, err_request,
                   error_dispatches>>

\* get_response_route moving the route that served the request to the front
\* of the table
get_response_route_promoting ==
    /\ pc = "RouteLookup"
    /\ \E r \in {Router_call(router, request)} :
          IF r.kind = "return"
          THEN /\ pc' = "Responded"
               /\ last' = [last EXCEPT !.outcome = r]
               /\ \E k \in {CHOOSE i \in 1..Len(router.routes) :
                                router.routes[i].handler = r.calls[Len(r.calls)].fn
                                \/ Body[router.routes[i].handler].value
                                       = r.calls[Len(r.calls)].fn} :
                     router' = [router EXCEPT !.routes =
                                   <<router.routes[k]>> \o SubSeq(router.routes, 1, k - 1)
                                       \o SubSeq(router.routes, k + 1, Len(router.routes))]
               /\ UNCHANGED <<exc, origin, err_request>>
          ELSE /\ exc' = r.exc
               /\ origin' = "RouteLookup"
               /\ err_request' = request
               /\ pc' = "ErrorDispatch"
               /\ last' = [last EXCEPT !.outcome.calls = r.calls]
               /\ UNCHANGED router
    /\ UNCHANGED <<error_router, environ, request, error_dispatches>>

\* lines 516-522: the router's result is returned; a failure of the lookup or
\* of a handler is dispatched with the request
get_response_route ==
    /\ pc = "RouteLookup"
    /\ \E r \in {Router_call(router, request)} :
          IF r.kind = "return"
          THEN /\ pc' = "Responded"
               /\ last' = [last EXCEPT !.outcome = r]
               /\ UNCHANGED <<exc, origin, err_request>>
          ELSE /\ exc' = r.exc
               /\ origin' = "RouteLookup"
               /\ err_request' = request
               /\ pc' = "ErrorDispatch"
               /\ last' = [last EXCEPT !.outcome.calls = r.calls]
    /\ UNCHANGED <<router, error_router, environ, request, error_dispatches>>

\* get_response_error_dispatch answering None when no entry handles the exception
get_response_error_dispatch_fallback ==
    /\ pc = "ErrorDispatch"
    /\ \E r \in {ErrorRouter_call(error_router, exc, err_request)} :
          IF r.kind = "raise" /\ r.exc.type = "NoErrorHandler"
          THEN /\ pc' = "Responded"
               /\ last' = [last EXCEPT !.outcome = Return(None, last.outcome.calls)]
          ELSE /\ pc' = IF r.kind = "return" THEN "Responded" ELSE "Raised"
               /\ last' = [last EXCEPT !.outcome =
                                        [r EXCEPT !.calls = last.outcome.calls \o r.calls]]
    /\ error_dispatches' = error_dispatches + 1
    /\ UNCHANGED <<router, error_router, environ, request, exc, err_request, origin>>

\* get_response_error_dispatch catching what an exception handler raises and
\* dispatching it again
get_response_error_dispatch_again ==
    /\ pc = "ErrorDispatch"
    /\ \E r \in {ErrorRouter_call(error_router, exc, err_request)} :
          IF r.kind = "raise" /\ r.exc.type # "NoErrorHandler"
          THEN /\ pc' = "ErrorDispatch"
               /\ exc' = r.exc
               /\ last' = [last EXCEPT !.outcome.calls = last.outcome.calls \o r.calls]
          ELSE /\ pc' = IF r.kind = "return" THEN "Responded" ELSE "Raised"
               /\ last' = [last EXCEPT !.outcome =
                                        [r EXCEPT !.calls = last.outcome.calls \o r.calls]]
               /\ UNCHANGED exc
    /\ error_dispatches' = error_dispatches + 1
    /\ UNCHANGED <<router, error_router, environ, request, err_request, origin>>

\* `return self.error_router(...)` of lines 501, 513 and 522: what the error
\* router returns is returned, what it raises leaves get_response
get_response_error_dispatch ==
    /\ pc = "ErrorDispatch"
    /\ \E r \in {ErrorRouter_call(error_router, exc, err_request)} :
          /\ pc' = IF r.kind = "return" THEN "Responded" ELSE "Raised"
          /\ last' = [last EXCEPT !.outcome = [r EXCEPT !.calls = last.outcome.calls \o r.calls]]
    /\ error_dispatches' = error_dispatches + 1
    /\ UNCHANGED <<router, error_router, environ, request, exc, err_request, origin>>

Next ==
    \/ \E t \in AppTemplates, h \in RouteHandlers, o \in {<<"JSON">>} :
            Blanket_add(h, o, {"path"}, t, "")
    \/ \E c \in RegisteredClasses, h \in ErrorHandlers, o \in {<<"JSON">>} :
            Blanket_add(h, o, {"exception_class"}, <<>>, c)
    \/ \E h \in {"h_ok"}, o \in {<<"JSON">>} : Blanket_add(h, o, {}, <<>>, "")
    \/ \E t \in AppTemplates, c \in {"ValueError"}, h \in {"h_ok", "e_ok"}, o \in {<<"JSON">>} :
            Blanket_add(h, o, {"path", "exception_class"}, t, c)
    \/ \E env \in Environs : get_response(env)
    \/ get_response_len_check
    \/ get_response_build_request
    \/ get_response_route
    \/ get_response_error_dispatch

Spec == Init /\ [][Next]_vars

(***************************************************************************)
(* Two get_response calls in flight on one application.  The calls share   *)
(* self.router and self.error_router; everything else of a call is local   *)
(* to it.  One call is stepped at a time, the frame of the other is kept   *)
(* in last.other, and switch makes the other call the one being stepped.   *)
(***************************************************************************)
\* routes and exception handlers the application is configured with
SharedRoutes == {<<<<"a">>, "h_none">>, <<<<"a">>, "h_raise">>, <<<<"/", "a">>, "h_ok">>}

SharedErrorRoutes == {<<"ValueError", "e_ok">>}

OneInFlight == last.other.pc = "idle"

\* Blanket.get_response(environ) is called while another call is in progress
get_response_meanwhile(env) ==
    /\ ~Quiescent
    /\ OneInFlight
    /\ pc' = "Start"
    /\ environ' = env
    /\ request' = NoRequest
    /\ exc' = NoException
    /\ err_request' = NoRequest
    /\ origin' = ""
    /\ error_dispatches' = 0
    /\ last' = [NoCall EXCEPT !.op = "get_response", !.environ = env,
                              !.other = [pc |-> pc, environ |-> environ, request |-> request,
                                         exc |-> exc, err_request |-> err_request,
                                         origin |-> origin,
                                         error_dispatches |-> error_dispatches,
                                         outcome |-> last.outcome]]
    /\ UNCHANGED <<router, error_router>>

\* the scheduler turns to the other call
switch ==
    /\ ~OneInFlight
    /\ pc' = last.other.pc
    /\ environ' = last.other.environ
    /\ request' = last.other.request
    /\ exc' = last.other.exc
    /\ err_request' = last.other.err_request
    /\ origin' = last.other.origin
    /\ error_dispatches' = last.other.error_dispatches
    /\ last' = [last EXCEPT !.environ = last.other.environ,
                            !.outcome = last.other.outcome,
                            !.other = [pc |-> pc, environ |-> environ, request |-> request,
                                       exc |-> exc, err_request |-> err_request,
                                       origin |-> origin,
                                       error_dispatches |-> error_dispatches,
                                       outcome |-> last.outcome]]
    /\ UNCHANGED <<router, error_router>>

NextShared ==
    \/ \E rh \in SharedRoutes :
            OneInFlight /\ Blanket_add(rh[2], <<"JSON">>, {"path"}, rh[1], "")
    \/ \E ch \in SharedErrorRoutes :
            OneInFlight /\ Blanket_add(ch[2], <<"JSON">>, {"exception_class"}, <<>>, ch[1])
    \/ \E env \in Environs : OneInFlight /\ get_response(env)
    \/ \E env \in Environs : get_response_meanwhile(env)
    \/ switch
    \/ get_response_len_check
    \/ get_response_build_request
    \/ get_response_route
    \/ get_response_error_dispatch

SpecShared == Init /\ [][NextShared]_vars

(***************************************************************************)
(* Properties of Router (checked under SpecRouter)                         *)
(***************************************************************************)
Least(S) == CHOOSE x \in S : \A y \in S : x <= y

\* indices of the routes of self whose matcher matches path
Matching(self, path) == {i \in 1..Len(self.routes) : Route_handles(self.routes[i], path)}

\* what the trampoline makes of the handler of route i for request req
Resolved(self, i, req) ==
    keepcalling(self.routes[i].handler,
                Kwargs({"request"} \cup GroupNames(self.routes[i].pattern.regex), req,
                       NoException))

\* the calls made by resolving the handlers of the routes I, in index order
RECURSIVE CallsOf(_, _, _)
CallsOf(self, I, req) ==
    IF I = {} THEN <<>>
    ELSE Resolved(self, Least(I), req).calls \o CallsOf(self, I \ {Least(I)}, req)

SameResult(a, b) == a.kind = b.kind /\ a.value = b.value /\ a.exc = b.exc

\* C1 as claimed: when two or more routes match the path, the outcome of
\* Router.__call__ is that of the handler of the earliest-registered
\* matching route, and only that handler is invoked.
C1_FirstMatchAlwaysWins ==
    (last.op = "Router.__call__" /\ Cardinality(Matching(router, last.request.path)) >= 2)
        => LET first == Least(Matching(router, last.request.path))
           IN /\ SameResult(last.outcome, Resolved(router, first, last.request))
              /\ last.outcome.calls = Resolved(router, first, last.request).calls

\* C1 (amended): Router.__call__ tries the matching routes in registration
\* order; the outcome is that of the earliest-registered matching route
\* whose handler raises or resolves to something other than None, the
\* matching routes before it are the only other ones invoked (each resolved
\* to None), and no route registered after it is invoked; when every
\* matching route resolves to None the call fails with NoRouteHandler.
C1_FirstMatchNotNoneWins ==
    (last.op = "Router.__call__" /\ Matching(router, last.request.path) # {})
        => LET M == Matching(router, last.request.path)
               D == {i \in M : \/ Resolved(router, i, last.request).kind = "raise"
                               \/ Resolved(router, i, last.request).value # None}
           IN IF D = {}
              THEN /\ last.outcome.kind = "raise"
                   /\ last.outcome.exc.type = "NoRouteHandler"
                   /\ last.outcome.calls = CallsOf(router, M, last.request)
              ELSE /\ SameResult(last.outcome, Resolved(router, Least(D), last.request))
                   /\ last.outcome.calls =
                        CallsOf(router, {i \in M : i <= Least(D)}, last.request)

\* C1 witness: two routes match, the earlier one's handler returns None and
\* the result of the later one is returned.
C1_Witness ==
    /\ last.op = "Router.__call__"
    /\ Cardinality(Matching(router, last.request.path)) >= 2
    /\ Resolved(router, Least(Matching(router, last.request.path)), last.request).value = None
    /\ last.outcome.kind = "return"
    /\ Len(last.outcome.calls) >= 2

\* C2 as claimed: Router.__call__ for a path no route matches raises
\* NoRouteHandler, which carries the path and the registered raw templates,
\* and no handler is invoked.
C2_NoMatchRaisesNoRouteHandler ==
    (last.op = "Router.__call__" /\ Matching(router, last.request.path) = {})
        => /\ last.outcome.kind = "raise"
           /\ last.outcome.exc.type = "NoRouteHandler"
           /\ last.outcome.exc.path = last.request.path
           /\ last.outcome.exc.routes = router.seen_routes
           /\ last.outcome.calls = <<>>

\* the step is a call of Router.add
IsRouterAdd == last'.op = "Router.add"

\* C3 as claimed: Router.add of a raw template already registered raises
\* DuplicateRoute whatever the handler and outputs, and appends nothing.
C3_DuplicateAlwaysDuplicateRoute ==
    [][(IsRouterAdd /\ last'.thing \in router.seen_routes)
          => /\ last'.outcome.kind = "raise"
             /\ last'.outcome.exc.type = "DuplicateRoute"
             /\ router' = router]_vars

\* the number of parameters of handler that Router.prepare requires the
\* template to account for
RequiredCount(handler) ==
    Cardinality({k \in 1..Len(RequiredArgs(handler)) : RequiredArgs(handler)[k] # "request"})

\* C3 (amended): Router.add of a raw template already registered fails and
\* appends nothing, whatever the handler function and outputs: with
\* DuplicateRoute when the handler's required parameters (without request)
\* are as many as the template's placeholders, and with the
\* BlanketValueError of prepare, raised before the duplicate check, when
\* they are not.
C3_DuplicateFails ==
    [][(IsRouterAdd /\ last'.thing \in router.seen_routes)
          => /\ last'.outcome.kind = "raise"
             /\ last'.outcome.exc.type =
                    IF RequiredCount(last'.handler) = Count(last'.thing, "{")
                    THEN "DuplicateRoute" ELSE "BlanketValueError"
             /\ router' = router]_vars

\* C3 witness: a registered raw template was offered again with another
\* handler and other outputs, and DuplicateRoute was raised.
C3_Witness ==
    /\ last.op = "Router.add"
    /\ last.outcome.exc.type = "DuplicateRoute"
    /\ \E i \in 1..Len(router.routes) :
          /\ router.routes[i].pattern.raw = last.thing
          /\ router.routes[i].handler # last.handler
          /\ router.routes[i].outputs # last.outputs

(***************************************************************************)
(* Properties of ErrorRouter (checked under SpecErrorRouter)               *)
(***************************************************************************)
\* indices of the entries of self whose class is the class of exception e
\* or one of its base classes
Handling(self, e) ==
    {i \in 1..Len(self.routes) : issubclass(e.type, self.routes[i].exception_class.raw)}

\* what the trampoline makes of the handler of entry i for exception e and
\* request req
ErrorResolved(self, i, e, req) ==
    keepcalling(self.routes[i].handler, Kwargs({"exception", "request"}, req, e))

\* C4: ErrorRouter.__call__ selects the earliest-registered entry whose
\* class is the exception's class or a base class of it; the outcome is that
\* of the trampoline on that entry's handler with `exception` and `request`
\* as keywords, and no other handler is invoked.
C4_FirstHandlingEntry ==
    (last.op = "ErrorRouter.__call__" /\ Handling(error_router, last.exception) # {})
        => LET r == ErrorResolved(error_router, Least(Handling(error_router, last.exception)),
                                  last.exception, last.request)
           IN /\ SameResult(last.outcome, r)
              /\ last.outcome.calls = r.calls
              /\ last.outcome.calls[1].kwargs =
                    Kwargs({"exception", "request"}, last.request, last.exception)

\* C4 witness: a base class was registered before its subclass, an instance
\* of the subclass was dispatched, and the base class's handler was invoked.
C4_Witness ==
    /\ last.op = "ErrorRouter.__call__"
    /\ Len(error_router.routes) = 2
    /\ error_router.routes[1].exception_class.raw = "ValueError"
    /\ error_router.routes[2].exception_class.raw = "BlanketValueError"
    /\ error_router.routes[1].handler # error_router.routes[2].handler
    /\ last.exception.type = "BlanketValueError"
    /\ last.outcome.calls[1].fn = error_router.routes[1].handler

\* C5: ErrorRouter.__call__ for an exception whose class is neither a
\* registered class nor a subclass of one raises NoErrorHandler, carrying
\* the exception's class and the registered classes, and invokes no handler.
C5_NoHandlingEntryRaises ==
    (last.op = "ErrorRouter.__call__" /\ Handling(error_router, last.exception) = {})
        => /\ last.outcome.kind = "raise"
           /\ last.outcome.exc.type = "NoErrorHandler"
           /\ last.outcome.exc.about = last.exception.type
           /\ last.outcome.exc.classes = error_router.seen_routes
           /\ last.outcome.calls = <<>>

\* C5 witness: a table with a subclass of the exception's class registered,
\* but no class of the exception, raised NoErrorHandler.
C5_Witness ==
    /\ last.op = "ErrorRouter.__call__"
    /\ \E i \in 1..Len(error_router.routes) :
          /\ error_router.routes[i].exception_class.raw # last.exception.type
          /\ issubclass(error_router.routes[i].exception_class.raw, last.exception.type)
    /\ last.outcome.exc.type = "NoErrorHandler"

\* the classes registered in self
Registered(self) == {self.routes[i].exception_class.raw : i \in 1..Len(self.routes)}

\* C6: ErrorRouter.add raises DuplicateRoute, leaving the table as it was,
\* exactly when the very class is already registered; otherwise (also when
\* a subclass or a base class of it is registered) it returns and the new
\* entry is the last of the table, after the entries there were.
C6_DuplicateExactlyWhenSameClass ==
    [][(last'.op = "ErrorRouter.add")
          => IF last'.exception_class \in Registered(error_router)
             THEN /\ last'.outcome.kind = "raise"
                  /\ last'.outcome.exc.type = "DuplicateRoute"
                  /\ error_router' = error_router
             ELSE /\ last'.outcome.kind = "return"
                  /\ error_router'.routes =
                        Append(error_router.routes,
                               [exception_class |-> [raw |-> last'.exception_class,
                                                     regex |-> <<>>],
                                handler |-> last'.handler, outputs |-> last'.outputs])]_vars

\* C6 witness: a base class was registered after its subclass, and both are
\* in the table in that order.
C6_Witness ==
    /\ last.op = "ErrorRouter.add"
    /\ last.outcome.kind = "return"
    /\ last.exception_class = "ValueError"
    /\ Len(error_router.routes) = 2
    /\ error_router.routes[1].exception_class.raw = "BlanketValueError"
    /\ error_router.routes[2].exception_class.raw = "ValueError"

(***************************************************************************)
(* Properties of Blanket.get_response (checked under Spec)                 *)
(***************************************************************************)
\* the get_response call has returned or raised
Finished == last.op = "get_response" /\ pc \in {"Responded", "Raised"}

\* the call reached `self.router(request=request)`: there are routes, the
\* Request was built and has an Accept header
ReachedRouter == Router_len(router) >= 1 /\ environ.is_dict /\ environ.accept

\* what the router makes of the request of this call
Routed == Router_call(router, Request(environ.path, TRUE))

\* the router failed because the handler it invoked last raised
HandlerRaised ==
    /\ Routed.kind = "raise"
    /\ Routed.calls # <<>>
    /\ LET c == Routed.calls[Len(Routed.calls)]
       IN Call(c.fn, c.kwargs).kind = "raise" /\ Call(c.fn, c.kwargs).exc = Routed.exc

C8_NoErrorHandlerPropagates ==
    (Finished /\ error_dispatches >= 1 /\ Handling(error_router, exc) = {})
        => /\ pc = "Raised"
           /\ last.outcome.kind = "raise"
           /\ last.outcome.exc.type = "NoErrorHandler"
           /\ last.outcome.value = None

\* C8 witness: with a non-empty exception table, the failure of the route
\* lookup found no entry and NoErrorHandler left get_response.
C8_Witness ==
    /\ Finished
    /\ origin = "RouteLookup"
    /\ Len(error_router.routes) >= 1
    /\ Handling(error_router, exc) = {}
    /\ last.outcome.exc.type = "NoErrorHandler"

\* C9: one get_response call dispatches to the exception table at most
\* once: error dispatch is entered only when the call has made no dispatch
\* yet, and the step taken from it ends the call, also when the exception
\* handler raises.
C9_ErrorDispatchAtMostOnce ==
    [][/\ error_dispatches' <= 1
       /\ (pc' = "ErrorDispatch" /\ pc # "ErrorDispatch") => error_dispatches' = 0
       /\ pc = "ErrorDispatch" => pc' \in {"Responded", "Raised"}]_vars

\* C9 witness: the exception handler raised, an entry of the table handles
\* what it raised, and yet the call ended after its one dispatch.
C9_Witness ==
    /\ Finished
    /\ pc = "Raised"
    /\ error_dispatches = 1
    /\ last.outcome.calls # <<>>
    /\ last.outcome.calls[Len(last.outcome.calls)].fn = "e_raise"
    /\ last.outcome.exc.type = "KeyError"
    /\ Handling(error_router, last.outcome.exc) # {}

\* the calls of exception handlers among calls
ErrorHandlerCalls(calls) ==
    {k \in 1..Len(calls) : "exception" \in calls[k].kwargs.keys}

\* C10: error dispatch gets request=None for a failure while the request is
\* built (Request() or the Accept check), and the request built from the
\* environ for a failure of the route lookup or of a handler; the exception
\* handler is called with that request.
C10_RequestContext ==
    /\ origin = "RequestBuilding" => err_request = NoRequest
    /\ origin = "RouteLookup" => err_request = Request(environ.path, TRUE)
    /\ (Finished /\ origin \in {"RequestBuilding", "RouteLookup"})
          => \A k \in ErrorHandlerCalls(last.outcome.calls) :
                last.outcome.calls[k].kwargs.request = err_request

\* C10 witness: the Request was built but had no Accept header, and the
\* exception handler was called with request=None.
C10_Witness ==
    /\ Finished
    /\ origin = "RequestBuilding"
    /\ ~request.is_none
    /\ ErrorHandlerCalls(last.outcome.calls) # {}
    /\ \A k \in ErrorHandlerCalls(last.outcome.calls) :
          last.outcome.calls[k].kwargs.request = NoRequest

(***************************************************************************)
(* Rendering and output selection in get_response (checked under Spec)     *)
(***************************************************************************)
\* the route whose handler gave the result the router returned
ServingRoute ==
    LET req == Request(environ.path, TRUE)
    IN Least({i \in Matching(router, environ.path) :
                 \/ Resolved(router, i, req).kind = "raise"
                 \/ Resolved(router, i, req).value # None})

\* the media types of the Accept header of an environ: the environs with
\* the header ask for application/json
AcceptedTypes(env) == IF env.accept THEN {"application/json"} ELSE {}

\* C11 as claimed: a get_response call that responds without error dispatch
\* has passed through rendering: the body it returns is what one of the
\* outputs of the serving route makes of the handler's result.
C11_RespondedIsRendered ==
    (Finished /\ pc = "Responded" /\ error_dispatches = 0)
        => \E k \in 1..Len(router.routes[ServingRoute].outputs), chevron \in BOOLEAN :
              LET body == Output_call(router.routes[ServingRoute].outputs[k], chevron,
                                      request, Routed.value)
              IN body.kind = "return" /\ last.outcome.value = body.value

\* C12 as claimed: the output is selected by negotiation between the Accept
\* header and the outputs of the route: a request without an Accept header,
\* or with one that no output satisfies, fails with NoOutputHandler, and
\* otherwise the first output declaring an accepted type renders the body.
C12_OutputByNegotiation ==
    /\ (Finished /\ Router_len(router) >= 1 /\ environ.is_dict /\ ~environ.accept)
          => last.outcome.kind = "raise" /\ last.outcome.exc.type = "NoOutputHandler"
    /\ (Finished /\ ReachedRouter /\ Routed.kind = "return")
          => LET outs == router.routes[ServingRoute].outputs
                 S    == {k \in 1..Len(outs) :
                             responds_to[outs[k]] \cap AcceptedTypes(environ) # {}}
             IN IF S = {}
                THEN last.outcome.kind = "raise" /\ last.outcome.exc.type = "NoOutputHandler"
                ELSE \E chevron \in BOOLEAN :
                        last.outcome.value =
                            Output_call(outs[Least(S)], chevron, request, Routed.value).value

(***************************************************************************)
(* Properties of keepcalling (checked under SpecKeepcalling)               *)
(***************************************************************************)
\* the invocables met from data on when every call returns: data, what its
\* body returns, and so on up to the first value that is not invocable
RECURSIVE Chain(_)
Chain(data) ==
    IF ~callable(data) THEN <<>>
    ELSE IF Body[data].kind = "raise" THEN <<data>>
    ELSE <<data>> \o Chain(Body[data].value)

\* the value at the end of the chain
RECURSIVE ChainEnd(_)
ChainEnd(data) ==
    IF callable(data) /\ Body[data].kind = "return" THEN ChainEnd(Body[data].value) ELSE data

\* C13: keepcalling calls the current value while it is invocable, every
\* call with the keyword arguments it was given, and returns the first
\* result that is not invocable: when it returns, it has called each
\* invocable of the chain once and in order (depth n: n calls), what it
\* returns is not invocable, and data that is not invocable is returned as
\* it is, without a call.
C13_KeepcallingResolvesChain ==
    (last.op = "keepcalling")
        => /\ \A k \in 1..Len(last.outcome.calls) :
                 /\ last.outcome.calls[k].kwargs = last.kwargs
                 /\ last.outcome.calls[k].fn = Chain(last.data)[k]
           /\ ~callable(last.data) => last.outcome = Return(last.data, <<>>)
           /\ last.outcome.kind = "return"
                 => /\ ~callable(last.outcome.value)
                    /\ last.outcome.value = ChainEnd(last.data)
                    /\ Len(last.outcome.calls) = Len(Chain(last.data))

\* C13 witness: a chain of depth four was resolved in four calls, and a
\* chain of depth two passes both of its calls the same two keywords.
C13_Witness ==
    /\ last.op = "keepcalling"
    /\ last.outcome.kind = "return"
    /\ \/ /\ last.data = "myfunc"
          /\ Len(last.outcome.calls) = 4
          /\ last.outcome.value = "great_grandchild"
       \/ /\ last.data = "h_x"
          /\ last.kwargs.keys = {"x", "request"}
          /\ Len(last.outcome.calls) = 2
          /\ last.outcome.calls[2].kwargs = last.kwargs

(***************************************************************************)
(* Properties of ManyHandler (checked under SpecManyHandler)               *)
(***************************************************************************)
\* what the trampoline makes of producer i of the latest ManyHandler call
Produced(i) == keepcalling(last.handlers[i], last.kwargs)

\* the producers of the latest call that yield a mapping
Yielding == {i \in 1..Len(last.handlers) : Produced(i).value \in DOMAIN Contexts}

\* the calls made by resolving the producers from i on, in list order
RECURSIVE ProducerCalls(_)
ProducerCalls(i) ==
    IF i > Len(last.handlers) THEN <<>> ELSE Produced(i).calls \o ProducerCalls(i + 1)

Greatest(S) == CHOOSE x \in S : \A y \in S : y <= x

\* C14: when every producer resolves to a mapping or to None, the
\* ManyHandler resolves them all through the trampoline, in list order and
\* with the keyword arguments it was called with, and returns the merged
\* mapping: its keys are the union of the keys of the mappings yielded, and
\* the value of a key is that of the last producer in the list that yields
\* the key; a producer that resolves to None changes nothing.
C14_LaterProducerWins ==
    (/\ last.op = "ManyHandler.__call__"
     /\ \A i \in 1..Len(last.handlers) :
           Produced(i).kind = "return" /\ Produced(i).value \in DOMAIN Contexts \cup {None})
        => /\ last.outcome.kind = "return"
           /\ DOMAIN last.outcome.value =
                 UNION {DOMAIN Contexts[Produced(i).value] : i \in Yielding}
           /\ \A key \in DOMAIN last.outcome.value :
                 last.outcome.value[key] =
                    Contexts[Produced(Greatest({i \in Yielding :
                                 key \in DOMAIN Contexts[Produced(i).value]})).value][key]
           /\ last.outcome.calls = ProducerCalls(1)
           /\ \A k \in 1..Len(last.outcome.calls) : last.outcome.calls[k].kwargs = last.kwargs

\* C14 witness: {a: 1} then {a: 2, b: 3} merge to {a: 2, b: 3}, and in the
\* opposite order to {a: 1, b: 3}.
C14_Witness ==
    /\ last.op = "ManyHandler.__call__"
    /\ last.outcome.kind = "return"
    /\ Len(last.handlers) = 2
    /\ Produced(2).kind = "return"
    /\ \/ /\ Produced(1).value = "d_a1" /\ Produced(2).value = "d_a2b3"
          /\ last.outcome.value = ("a" :> 2 @@ "b" :> 3)
       \/ /\ Produced(1).value = "d_a2b3" /\ Produced(2).value = "d_a1"
          /\ last.outcome.value = ("a" :> 1 @@ "b" :> 3)

RouterRaws(self) == [i \in 1..Len(self.routes) |-> self.routes[i].pattern.raw]

ErrorRouterRaws(self) == [i \in 1..Len(self.routes) |-> self.routes[i].exception_class.raw]

\* the list of raw keys has no key twice, and the set holds exactly its keys
NoDrift(raws, seen_routes) ==
    /\ \A i, j \in 1..Len(raws) : i # j => raws[i] # raws[j]
    /\ seen_routes = Range(raws)
    /\ Len(raws) = Cardinality(seen_routes)

\* C16: whatever add calls were made, successful or not, on the Router and
\* on the ErrorRouter, the raw keys of `routes` are pairwise distinct,
\* `seen_routes` is the set of those keys and is as long as `routes`; and the
\* order of `routes` is the order of the successful registrations: a step
\* either leaves the keys as they were or is an add that returned and put
\* its key last.
C16_TablesNeverDrift ==
    /\ [](/\ NoDrift(RouterRaws(router), router.seen_routes)
          /\ NoDrift(ErrorRouterRaws(error_router), error_router.seen_routes))
    /\ [][/\ \/ RouterRaws(router') = RouterRaws(router)
             \/ /\ last'.op = "Blanket.add" /\ last'.outcome.kind = "return"
                /\ RouterRaws(router') = Append(RouterRaws(router), last'.thing)
          /\ \/ ErrorRouterRaws(error_router') = ErrorRouterRaws(error_router)
             \/ /\ last'.op = "Blanket.add" /\ last'.outcome.kind = "return"
                /\ ErrorRouterRaws(error_router') =
                      Append(ErrorRouterRaws(error_router), last'.exception_class)]_vars

\* C16 witness: both tables hold two entries and the latest add, of a key
\* already there, failed.
C16_Witness ==
    /\ last.op = "Blanket.add"
    /\ last.outcome.exc.type = "DuplicateRoute"
    /\ Len(router.routes) = 2 /\ Cardinality(router.seen_routes) = 2
    /\ Len(error_router.routes) = 2 /\ Cardinality(error_router.seen_routes) = 2

(***************************************************************************)
(* The strictness check of Router.add (checked under SpecRouter)           *)
(***************************************************************************)
\* the number of placeholders of a template: each opens with a brace
Placeholders(template) == Cardinality({i \in 1..Len(template) : template[i] = "{"})

FullMatch(raw, path) == RegexMatch(final_path(raw), path)

\* C18: `path in router` is True exactly when the matcher of a registered
\* route matches the full path; evaluating it calls no handler and leaves
\* the table as it was; and dispatch agrees with it: for a path that is not
\* in the router, Router.__call__ calls no handler.
C18_MembershipIsMatching ==
    [][/\ last'.op = "Router.__contains__"
            => /\ last'.outcome.value \in {"True", "False"}
               /\ last'.outcome.value = "True"
                     <=> \E raw \in router.seen_routes : FullMatch(raw, last'.request.path)
               /\ last'.outcome.calls = <<>>
               /\ router' = router
       /\ (/\ last'.op = "Router.__call__"
           /\ ~\E raw \in router.seen_routes : FullMatch(raw, last'.request.path))
            => last'.outcome.calls = <<>> /\ last'.outcome.kind = "raise"]_vars

\* C18 witness: of two routes the second alone matches the path, which is in
\* the router.
C18_Witness ==
    /\ last.op = "Router.__contains__"
    /\ last.outcome.value = "True"
    /\ Len(router.routes) = 2
    /\ ~FullMatch(router.routes[1].pattern.raw, last.request.path)
    /\ FullMatch(router.routes[2].pattern.raw, last.request.path)

(***************************************************************************)
(* Request handling and the shared tables (checked under SpecShared)       *)
(***************************************************************************)
\* the outcome of get_response(env) run alone on an application with route
\* table rt and exception table ert
RunAlone(rt, ert, env) ==
    IF Router_len(rt) < 1
    THEN ErrorRouter_call(ert, Exc("NoRouteHandler", "No routes are defined"), NoRequest)
    ELSE IF ~env.is_dict
    THEN ErrorRouter_call(ert, Exc("TypeError", "WSGI environ must be a dict"), NoRequest)
    ELSE IF ~env.accept
    THEN ErrorRouter_call(ert, Exc("BlanketValueError", "no HTTP_ACCEPT header"), NoRequest)
    ELSE LET routed == Router_call(rt, Request(env.path, TRUE))
         IN IF routed.kind = "return" THEN routed
            ELSE LET handled == ErrorRouter_call(ert, routed.exc, Request(env.path, TRUE))
                 IN [handled EXCEPT !.calls = routed.calls \o handled.calls]

\* C19: no step of a get_response call (the length check, building the
\* request, the membership test and the dispatch of the Router, the dispatch
\* of the ErrorRouter), whether it succeeds or fails, changes `routes` or
\* `seen_routes` of either table; and however the steps of two calls on one
\* configured application interleave, a call that ends has the outcome it
\* has when run alone.
C19_RequestHandlingWritesNothing ==
    /\ [][last'.op = "get_response" => router' = router /\ error_router' = error_router]_vars
    /\ [](Finished => last.outcome = RunAlone(router, error_router, environ))
    /\ []((last.op = "get_response" /\ last.other.pc \in {"Responded", "Raised"})
             => last.other.outcome = RunAlone(router, error_router, last.other.environ))

\* C19 witness: two calls were in flight together on an application with
\* two routes and an exception handler; one was answered by the second
\* route, after the first route's handler returned None, and the other by
\* the exception handler.
C19_Witness ==
    /\ Finished
    /\ last.other.pc = "Responded"
    /\ Len(router.routes) = 2
    /\ last.outcome.value = "A"
    /\ Len(last.outcome.calls) = 2
    /\ last.other.outcome.value = "E"
    /\ last.other.error_dispatches = 1

(***************************************************************************)
(* A class and its ancestors in one ErrorRouter (checked under             *)
(* SpecErrorRouter)                                                        *)
(***************************************************************************)
\* indices of the entries of self registered for the very class of e
Own(self, e) == {i \in 1..Len(self.routes) : self.routes[i].exception_class.raw = e.type}

\* the outcome of the latest dispatch is that of the handler of entry i
SelectedIs(i) ==
    LET r == ErrorResolved(error_router, i, last.exception, last.request)
    IN SameResult(last.outcome, r) /\ last.outcome.calls = r.calls

\* C20 as claimed: dispatching an exception whose exact class is registered
\* selects that class's own entry, wherever its ancestors are in the table;
\* only when the exact class is not registered does the dispatch go to a
\* registered ancestor, the earliest-registered one.
C20_ExactTypeBeatsAncestor ==
    (last.op = "ErrorRouter.__call__" /\ Handling(error_router, last.exception) # {})
        => IF Own(error_router, last.exception) # {}
           THEN SelectedIs(Least(Own(error_router, last.exception)))
           ELSE SelectedIs(Least(Handling(error_router, last.exception)))

\* C20 (amended): dispatching an exception whose exact class is registered
\* selects that class's own entry only when no ancestor of the class was
\* registered before it; when one was, and when the exact class is not
\* registered, the dispatch goes to the earliest-registered ancestor.
C20_OwnEntryUnlessAncestorFirst ==
    (last.op = "ErrorRouter.__call__" /\ Handling(error_router, last.exception) # {})
        => LET own       == Own(error_router, last.exception)
               ancestors == Handling(error_router, last.exception) \ own
           IN IF own # {} /\ \A j \in ancestors : Least(own) < j
              THEN SelectedIs(Least(own))
              ELSE SelectedIs(Least(ancestors))

\* C20 witness: Exception was registered before ValueError with another
\* handler, a ValueError was dispatched, and the handler registered for
\* Exception was the one called.
C20_Witness ==
    /\ last.op = "ErrorRouter.__call__"
    /\ Len(error_router.routes) = 2
    /\ error_router.routes[1].exception_class.raw = "Exception"
    /\ error_router.routes[2].exception_class.raw = "ValueError"
    /\ error_router.routes[1].handler # error_router.routes[2].handler
    /\ last.exception.type = "ValueError"
    /\ ~SelectedIs(2)
    /\ last.outcome.calls[1].fn = error_router.routes[1].handler

(***************************************************************************)
(* Construction of a ManyHandler (checked under SpecManyHandler)           *)
(***************************************************************************)
\* the latest operation built a ManyHandler from a value that is not iterable
BuiltFromNonIterable ==
    /\ last.op \in {"ManyHandler.__init__", "ManyHandler.__call__"}
    /\ ~has_iter(last.data)

\* C21: building a ManyHandler from a producers value that is not iterable
\* fails at construction with an exception of the BlanketValueError kind,
\* before any producer is invoked.
C21_NonIterableIsBlanketValueError ==
    BuiltFromNonIterable =>
        /\ last.op = "ManyHandler.__init__"
        /\ last.outcome.kind = "raise"
        /\ issubclass(last.outcome.exc.type, "BlanketValueError")
        /\ last.outcome.calls = <<>>

(***************************************************************************)
(* Properties of the template compiler (checked under SpecMake)            *)
(***************************************************************************)
\* the latest operation made a pattern or matched a subject against it
Compiling == last.op \in {"URLTransformRegistry.make", "regex.match"}

Matched == last.op = "regex.match" /\ last.outcome.value = "True"

NoPlaceholders(t) == Count(t, "{") = 0

\* text that means itself in a regular expression
IsLiteralText(t) ==
    \A k \in DOMAIN t :
        t[k] \in Range(LowerLetters) \cup Range(UpperLetters) \cup Range(Digits)
                    \cup {"/", "-", "_"}

\* the one path a literal template stands for
ExactPath(t) == IF t # <<>> /\ t[1] = "/" THEN t ELSE <<"/">> \o t

LowerAll(cs) == [k \in DOMAIN cs |-> Lower(cs[k])]

\* C22 as claimed: a template without placeholders compiles to "^", the
\* template with a leading "/" supplied when missing, "$"; raw is the
\* template; and the matcher matches that exact path and no other string.
C22_LiteralTemplateMatchesOnlyItsPath ==
    (Compiling /\ NoPlaceholders(last.thing)) =>
        /\ last.outcome.kind = "return"
        /\ last.pattern.raw = last.thing
        /\ last.pattern.regex = <<"^">> \o ExactPath(last.thing) \o <<"$">>
        /\ last.op = "regex.match" => (Matched <=> last.value = ExactPath(last.thing))

\* C22 amended: for a template of letters, digits, "/", "-" and "_" the
\* pattern is "^", the template with a leading "/" supplied when missing,
\* "$"; raw is the template; and the matcher matches exactly that path
\* compared without regard to letter case, optionally followed by one
\* trailing newline.
C22_LiteralTemplateMatchesItsPathIgnoringCase ==
    (Compiling /\ IsLiteralText(last.thing)) =>
        /\ last.outcome.kind = "return"
        /\ last.pattern.raw = last.thing
        /\ last.pattern.regex = <<"^">> \o ExactPath(last.thing) \o <<"$">>
        /\ last.op = "regex.match" =>
              (Matched <=> \/ LowerAll(last.value) = LowerAll(ExactPath(last.thing))
                           \/ LowerAll(last.value)
                                = LowerAll(ExactPath(last.thing)) \o <<"\n">>)

\* the pattern of "a/b" matched "/A/b": the same path in another case
C22_Witness ==
    /\ Matched
    /\ last.thing = <<"a", "/", "b">>
    /\ last.pattern.regex = <<"^", "/", "a", "/", "b", "$">>
    /\ last.value = <<"/", "A", "/", "b">>

\* a template with a placeholder and no kind in it
Unkinded(t) == Count(t, "{") > 0 /\ Count(t, "!") = 0

\* the template with kind s written out in every placeholder
WithKindS(t) == Replace(t, <<"}">>, <<"!", "s", "}">>)

\* C23: a placeholder written without a kind is compiled as kind s: make
\* returns for the template the pattern it returns for the template with
\* "!s" written out, and the two patterns match the same paths.
C23_UnkindedPlaceholderIsKindS ==
    (Compiling /\ Unkinded(last.thing)) =>
        /\ last.outcome.kind = "return"
        /\ last.pattern.regex = final_path(WithKindS(last.thing))
        /\ last.op = "regex.match" =>
              (Matched <=> RegexMatch(final_path(WithKindS(last.thing)), last.value))

(***************************************************************************)
(* The date kinds (checked under SpecMake)                                 *)
(***************************************************************************)
AllDigits(cs) == \A k \in DOMAIN cs : IsDigit(cs[k])

\* the number a string of digits writes
RECURSIVE Number(_)
Number(cs) ==
    IF cs = <<>> THEN 0
    ELSE 10 * Number(SubSeq(cs, 1, Len(cs) - 1)) + (IndexIn(Digits, cs[Len(cs)]) - 1)

\* the parts of cs between its "/" characters
RECURSIVE Split(_)
Split(cs) ==
    IF FirstAt(cs, 1, "/") = 0 THEN <<cs>>
    ELSE <<SubSeq(cs, 1, FirstAt(cs, 1, "/") - 1)>>
            \o Split(SubSeq(cs, FirstAt(cs, 1, "/") + 1, Len(cs)))

\* the kind written in the placeholder "{name!kind}"
KindOf(placeholder) == SubSeq(placeholder, FirstAt(placeholder, 1, "!") + 1, Len(placeholder) - 1)

\* the segments the claim says a placeholder of the kind accepts
Accepted(kind, segment) ==
    /\ AllDigits(segment)
    /\ CASE kind = <<"y", "e", "a", "r">> ->
                Len(segment) = 4 /\ Number(segment) \in 1000..9999
          [] kind = <<"m", "o", "n", "t", "h">> ->
                Len(segment) = 2 /\ Number(segment) \in 1..12
          [] kind = <<"d", "a", "y">> ->
                Len(segment) = 2 /\ Number(segment) \in 1..31
          [] OTHER -> FALSE

\* C24: a path matches a template of year, month and day placeholders
\* exactly when it has one segment per placeholder and each segment is
\* accepted: four digits from 1000 to 9999 for a year, two digits from 01 to
\* 12 for a month, two digits from 01 to 31 for a day, whatever the month.
C24_DateKindsAcceptTheirRanges ==
    (last.op = "regex.match" /\ last.thing \in DateTemplates) =>
        (Matched <=>
            /\ last.value # <<>>
            /\ last.value[1] = "/"
            /\ \E kinds \in {Split(Tail(ExactPath(last.thing)))},
                  segments \in {Split(Tail(last.value))} :
                  /\ Len(segments) = Len(kinds)
                  /\ \A k \in DOMAIN kinds : Accepted(KindOf(kinds[k]), segments[k]))

\* the 31st of February matched the year/month/day template
C24_Witness ==
    /\ Matched
    /\ last.thing = <<"{", "y", "!", "y", "e", "a", "r", "}", "/",
                      "{", "m", "!", "m", "o", "n", "t", "h", "}", "/",
                      "{", "d", "!", "d", "a", "y", "}">>
    /\ last.value = <<"/", "2", "0", "0", "0", "/", "0", "2", "/", "3", "1">>

(***************************************************************************)
(* Termination of keepcalling (checked under SpecKeepcallingLoop)          *)
(***************************************************************************)
\* within n calls from data on, a value that is not invocable is reached or
\* a call raises
RECURSIVE Stops(_, _, _)
Stops(data, kwargs, n) ==
    \/ ~callable(data)
    \/ Call(data, kwargs).kind = "raise"
    \/ n > 0 /\ Stops(Call(data, kwargs).value, kwargs, n - 1)

\* every call of the chain returns another invocable: a chain over finitely
\* many invocables that does not stop within their number of calls repeats
EndlessChain(data, kwargs) == ~Stops(data, kwargs, Cardinality(Invocables))

\* C25: keepcalling has no depth guard.  On a chain in which every call
\* returns another invocable it never returns and never raises; when it
\* returns, what it returns is not invocable; an exception it raises is the
\* one a call of the chain raised; and on every other chain it ends.
C25_KeepcallingEndsExactlyOnFiniteChains ==
    /\ []((last.op = "keepcalling.while" /\ EndlessChain(last.started, last.kwargs))
            => last.outcome.kind = "pending")
    /\ []((last.op = "keepcalling.while" /\ last.outcome.kind = "return")
            => /\ ~callable(last.outcome.value)
               /\ last.outcome.value = last.data)
    /\ []((last.op = "keepcalling.while" /\ last.outcome.kind = "raise")
            => /\ callable(last.data)
               /\ last.outcome.exc = Call(last.data, last.kwargs).exc)
    /\ ((Looping /\ ~EndlessChain(last.started, last.kwargs)) ~> ~Looping)

\* the loop is still running on the chain ping, pong, ping, ... after
\* MaxIterations calls
C25_Witness ==
    /\ Looping
    /\ last.started = "ping"
    /\ last.iterations = MaxIterations
    /\ callable(last.data)

(***************************************************************************)
(* Router dispatch and None (checked under SpecRouter)                     *)
(***************************************************************************)
\* the handler of matching route i resolves to None for the latest request
ResolvesToNone(i) ==
    /\ Resolved(router, i, last.request).kind = "return"
    /\ Resolved(router, i, last.request).value = None

\* C26: Router dispatch never returns None.  What it returns is the result
\* of a matching route that is not None, every matching route registered
\* before that one having resolved to None; and when every matching route
\* resolves to None it fails with NoRouteHandler, although the path is in
\* the table.
C26_DispatchNeverReturnsNone ==
    (last.op = "Router.__call__") =>
        LET M == Matching(router, last.request.path)
        IN /\ last.outcome.kind = "return" =>
                /\ last.outcome.value # None
                /\ \E i \in M :
                      /\ Resolved(router, i, last.request).kind = "return"
                      /\ Resolved(router, i, last.request).value = last.outcome.value
                      /\ \A j \in M : j < i => ResolvesToNone(j)
           /\ (M # {} /\ \A i \in M : ResolvesToNone(i)) =>
                /\ last.outcome.kind = "raise"
                /\ last.outcome.exc.type = "NoRouteHandler"
                /\ last.outcome.exc.path = last.request.path
                /\ \E raw \in router.seen_routes : FullMatch(raw, last.request.path)

\* two routes match the path, both resolve to None, and the dispatch failed
\* with NoRouteHandler
C26_Witness ==
    /\ last.op = "Router.__call__"
    /\ Cardinality(Matching(router, last.request.path)) >= 2
    /\ \A i \in Matching(router, last.request.path) : ResolvesToNone(i)
    /\ last.outcome.kind = "raise"
    /\ last.outcome.exc.type = "NoRouteHandler"

(***************************************************************************)
(* Failed registrations (checked under Spec)                               *)
(***************************************************************************)
\* the step is a Blanket.add that reached Router.add or ErrorRouter.add and
\* failed there
RegistrationFails ==
    /\ last'.op = "Blanket.add"
    /\ last'.given \in {{"path"}, {"exception_class"}}
    /\ last'.outcome.kind = "raise"
    /\ last'.outcome.exc.type \in {"DuplicateRoute", "BlanketValueError"}

\* C27: a registration that fails with DuplicateRoute or BlanketValueError
\* leaves routes (order included) and seen_routes of both tables as they
\* were; and the outcome of a get_response is determined by the two tables
\* and the environ alone, so every dispatch afterwards has the outcome it
\* would have had without the attempt.
C27_FailedRegistrationChangesNothing ==
    /\ [][RegistrationFails =>
             /\ router'.routes = router.routes
             /\ router'.seen_routes = router.seen_routes
             /\ error_router'.routes = error_router.routes
             /\ error_router'.seen_routes = error_router.seen_routes]_vars
    /\ []((last.op = "get_response" /\ pc \in {"Responded", "Raised"})
            => last.outcome = RunAlone(router, error_router, environ))

\* a route registration failed as a duplicate on an application that has
\* routes and exception handlers
C27_Witness ==
    /\ last.op = "Blanket.add"
    /\ last.given = {"path"}
    /\ last.outcome.kind = "raise"
    /\ last.outcome.exc.type = "DuplicateRoute"
    /\ Len(router.routes) = Cardinality(router.seen_routes)
    /\ Len(router.routes) >= 1
    /\ Len(error_router.routes) >= 1

(***************************************************************************)
(* get_response on an empty route table (checked under Spec)               *)
(***************************************************************************)
\* a get_response call is past its first step on an application without routes
PastStartWithoutRoutes ==
    /\ last.op = "get_response"
    /\ pc # "Start"
    /\ Len(router.routes) = 0

\* C28: on an application whose route table is empty, get_response hands a
\* NoRouteHandler to the exception table without a request, as its first
\* step: no Request is built and the Accept header plays no part, whatever
\* the environ and its path; the call ends as that dispatch ends.
C28_EmptyTableDispatchesNoRouteHandler ==
    /\ [](PastStartWithoutRoutes =>
            /\ pc \in {"ErrorDispatch", "Responded", "Raised"}
            /\ origin = "Start"
            /\ exc.type = "NoRouteHandler"
            /\ err_request = NoRequest
            /\ request = NoRequest
            /\ pc \in {"Responded", "Raised"} =>
                  last.outcome = ErrorRouter_call(error_router,
                                                  Exc("NoRouteHandler", "No routes are defined"),
                                                  NoRequest))
    /\ [][(last.op = "get_response" /\ pc = "Start" /\ Len(router.routes) = 0 /\ pc' # pc)
             => pc' = "ErrorDispatch"]_vars

\* a call whose environ is not even a dict was answered by the handler
\* registered for Exception, on an application without routes
C28_Witness ==
    /\ PastStartWithoutRoutes
    /\ pc = "Responded"
    /\ ~environ.is_dict
    /\ exc.type = "NoRouteHandler"
    /\ Len(last.outcome.calls) >= 1

=============================================================================
